---- MODULE Spec2Model ----
(***************************************************************************)
(* The client-side store of the CIRM data portal (hook useCIRMData) and    *)
(* the data-management operations that drive it: load, import/merge,       *)
(* editor apply, addGrants/addPapers, the change log and rollback.         *)
(*                                                                         *)
(* Specifications:                                                         *)
(*   Spec          every operation of the data-management section          *)
(*   SpecImport    importData on every file of up to MaxBatch rows         *)
(*   SpecRollback  a session that finds an earlier change history          *)
(*   SpecStore     the hook's operations with the clock and storage quota  *)
(*   SpecHeap      the merge of importData on objects and references       *)
(*   SpecTemplate  a session that also downloads the data template         *)
(*   SpecExport    exported data sets imported through the hook            *)
(*   SpecSheets    workbooks imported sheet by sheet                       *)
(*   SpecStart     the page is loaded again and again, from a first visit  *)
(*   SpecEditor    workbooks uploaded to the editor and applied            *)
(*   SpecAccess    requests through the access middleware                  *)
(*                                                                         *)
(* JavaScript values are represented as follows.                           *)
(*   null (the `data` state before loading)      Null                     *)
(*   an optional field that is undefined or null  Undef  (the tuple <<>>)  *)
(*   an optional field holding v                  Some(v) (the tuple <<v>>)*)
(*   an array                                     a sequence               *)
(* Every field of a CIRMData document is optional in this sense, because   *)
(* importData stores a parsed JSON file unvalidated (`imported as          *)
(* CIRMData`); a document and an imported partial have the same shape.     *)
(* Records carry the fields the store reads or writes; the fields it only  *)
(* copies (`...data`, `...change`) are left out.                           *)
(***************************************************************************)
EXTENDS Integers, Sequences, FiniteSets, TLC

VARIABLES
    data,           \* useState<CIRMData | null>
    loading,        \* useState(true)
    error,          \* useState<string | null>
    changes,        \* useState<DataChange[]>, most recent first
    stored,         \* localStorage['cirm-data'], parsed
    storedChanges,  \* localStorage['cirm-changes'], parsed
    inflight,       \* importData calls suspended in file parsing
    editedData,     \* DataManagementSection: useState<Partial<CIRMData> | null>
    now,            \* Date.now(), in milliseconds
    quotaExceeded,  \* localStorage.setItem('cirm-data', ...) throws
    mem,            \* the objects one merge of importData works on (SpecHeap)
    activeGrantsRef,\* which array object data.activeGrants is
    deployment,     \* the access middleware deployed, and its env
    client,         \* a browser: its cookie jar, and what it has sent so far
    last,           \* history: the operation that completed last
    ops             \* history: number of operations started

vars == <<data, loading, error, changes, stored, storedChanges, inflight,
          editedData, now, quotaExceeded, mem, activeGrantsRef, deployment, client, last, ops>>

(***************************************************************************)
(* Bounds of the model.                                                    *)
(***************************************************************************)
MaxBatch == 2       \* rows of one imported sheet (SpecImport)
MaxImportOps == 1   \* operations started in one behaviour of SpecImport
MaxOps == 2         \* operations started in one behaviour of Spec
MaxInFlight == 1    \* importData calls suspended at the same time
MaxStoreOps == 2    \* operations started in one behaviour of SpecStore
MaxRollbackOps == 2 \* mutations started in one behaviour of SpecRollback
MaxClock == 1       \* milliseconds the clock of SpecStore runs from its start
MaxTemplateOps == 2 \* operations started in one behaviour of SpecTemplate
MaxExportOps == 2   \* imports started in one behaviour of SpecExport
MaxSheets == 2      \* sheets of one workbook (SpecSheets)
MaxSheetOps == 1    \* imports started in one behaviour of SpecSheets
MaxStarts == 2      \* reloads and applies in one behaviour of SpecStart
MaxEditorOps == 2   \* applies started in one behaviour of SpecEditor

(***************************************************************************)
(* Values.                                                                 *)
(***************************************************************************)
Null == [null |-> TRUE]

\* A stored item that is not JSON text.
Corrupt == [corrupt |-> TRUE]
Undef == <<>>
Some(v) == <<v>>

SeqsUpTo(S, n) == UNION {[1..k -> S] : k \in 0..n}

RECURSIVE SumTotalAwards(_)
SumTotalAwards(gs) ==
    IF gs = <<>> THEN 0 ELSE Head(gs).totalAwards + SumTotalAwards(Tail(gs))

RECURSIVE SumAwardValue(_)
SumAwardValue(gs) ==
    IF gs = <<>> THEN 0 ELSE Head(gs).awardValue + SumAwardValue(Tail(gs))

NotClosed(gs) == SelectSeq(gs, LAMBDA g : g.awardStatus # "Closed")

Grant(gt, n, v, s) ==
    [grantType |-> gt, totalAwards |-> n, awardValue |-> v, awardStatus |-> s]

Paper(t) == [title |-> t]

ActiveGrant(k, v, s) ==
    [grantNumber |-> k, awardValue |-> v, awardStatus |-> s, sortOrder |-> Undef,
     previousAwardValue |-> Undef, previousAwardStatus |-> Undef]

\* The record with its optional sortOrder set.
Ordered(ag, n) == [ag EXCEPT !.sortOrder = Some(n)]

Summary(tg, tp, tpr, ta, ap) ==
    [totalGrants |-> tg, totalPapers |-> tp, totalProjects |-> tpr,
     totalAmount |-> ta, activeProjects |-> ap]

\* A document or a partial one: each field is Undef or Some(value).
Partial(gs, ps, ags, sm) ==
    [grants |-> gs, papers |-> ps, activeGrants |-> ags, summary |-> sm]

\* A complete document.
CIRMData(gs, ags, ps, sm) == Partial(Some(gs), Some(ps), Some(ags), Some(sm))

\* The summary a document has when its producer derived it from the arrays.
DerivedSummary(gs, ps) ==
    Summary(Len(gs), Len(ps), SumTotalAwards(gs), SumAwardValue(gs),
            SumTotalAwards(NotClosed(gs)))

GrantNumbers(ags) == {ags[i].grantNumber : i \in 1..Len(ags)}

UniqueGrantNumbers(ags) ==
    \A i, j \in 1..Len(ags) : ags[i].grantNumber = ags[j].grantNumber => i = j

(***************************************************************************)
(* Inputs: rows of uploaded files and the documents found at start.        *)
(***************************************************************************)
GrantRows == {Grant("DISC", 1, 10, "Active"), Grant("CLIN", 2, 20, "Closed")}

PaperRows == {Paper("P1"), Paper("P2")}

\* Rows as a workbook yields them: parseExcelFile never reads the
\* previous-value columns.
SheetActiveGrantRows ==
    {ActiveGrant("G1", 100, "Active"), ActiveGrant("G1", 200, "Closed"),
     ActiveGrant("G1", 100, "Pending"), ActiveGrant("G2", 100, "Closed"),
     ActiveGrant("G3", 200, "Active")}

\* A JSON file can carry previous-value fields, as an exported document does.
JsonActiveGrantRows ==
    {[ActiveGrant("G1", 100, "Closed") EXCEPT
        !.previousAwardValue = Some(300), !.previousAwardStatus = Some("Pending")]}

ActiveGrantRows == SheetActiveGrantRows \cup JsonActiveGrantRows

\* What reading a data file yields: no summary.
Imported(gs, ps, ags) == Partial(gs, ps, ags, Undef)

\* A file, by its extension and by what reading it yields.
File(ext, parses, imported) ==
    [ext |-> ext, parses |-> parses, imported |-> imported]

Xlsx(gs, ps, ags) == File("xlsx", TRUE, Imported(Some(gs), Some(ps), Some(ags)))
Csv(ps) == File("csv", TRUE, Imported(Undef, Some(ps), Undef))
Json(p) == File("json", TRUE, p)
Unreadable(ext) == File(ext, FALSE, Imported(Undef, Undef, Undef))

IsSheetBatch(b) == \A i \in 1..Len(b) : b[i] \in SheetActiveGrantRows

ImportFiles ==
    {IF IsSheetBatch(b) THEN Xlsx(<<>>, <<>>, b)
                        ELSE Json(Imported(Undef, Some(<<>>), Some(b))) :
        b \in SeqsUpTo(ActiveGrantRows, MaxBatch)}
    \cup {Xlsx(gs, <<>>, <<>>) : gs \in SeqsUpTo(GrantRows, MaxBatch)}
    \cup {Json(Imported(Some(gs), Undef, Undef)) : gs \in SeqsUpTo(GrantRows, MaxBatch)}
    \cup {Csv(ps) : ps \in SeqsUpTo(PaperRows, MaxBatch)}
    \cup {Xlsx(<<Grant("DISC", 1, 10, "Active")>>, <<Paper("P2")>>,
               <<ActiveGrant("G2", 100, "Closed")>>),
          Json(Imported(Undef, Undef, Some(<<ActiveGrant("G3", 200, "Active")>>))),
          Unreadable("xlsx"), Unreadable("json")}

Files ==
    {Xlsx(<<Grant("DISC", 1, 10, "Active")>>, <<Paper("P2")>>,
          <<ActiveGrant("G2", 100, "Closed")>>),
     Xlsx(<<>>, <<>>, <<ActiveGrant("G1", 200, "Closed"), ActiveGrant("G3", 200, "Active")>>),
     Csv(<<Paper("P1"), Paper("P2")>>),
     Json(Imported(Some(<<Grant("CLIN", 2, 20, "Closed")>>), Undef, Undef)),
     Json(Imported(Undef, Undef, Some(<<ActiveGrant("G3", 200, "Active")>>))),
     Unreadable("json")}

\* What processEditorFile leaves in editedData: always the three arrays.
EditorUploads ==
    {Imported(Some(<<Grant("CLIN", 2, 20, "Closed")>>), Some(<<Paper("P2")>>), Some(<<>>)),
     Imported(Some(<<Grant("DISC", 1, 10, "Active"), Grant("DISC", 1, 10, "Active")>>),
              Some(<<>>), Some(<<ActiveGrant("G1", 200, "Closed")>>)),
     Imported(Some(<<>>), Some(<<>>),
              Some(<<ActiveGrant("G2", 100, "Closed"), ActiveGrant("G3", 200, "Active")>>))}

AddedGrants == {<<Grant("DISC", 1, 10, "Active")>>,
                <<Grant("CLIN", 2, 20, "Closed"), Grant("DISC", 1, 10, "Active")>>}

AddedPapers == {<<Paper("P2")>>, <<Paper("P1"), Paper("P2")>>}

\* Documents found at start (persisted by an earlier session, or fetched).
\* Their grant numbers are unique; the summary of the second has drifted
\* from its arrays, and its activeGrants are not stored in their sort order.
Documents ==
    {CIRMData(<<Grant("DISC", 1, 10, "Active"), Grant("CLIN", 2, 20, "Closed")>>,
              <<ActiveGrant("G1", 100, "Active"), ActiveGrant("G2", 200, "Closed")>>,
              <<Paper("P1")>>,
              DerivedSummary(<<Grant("DISC", 1, 10, "Active"), Grant("CLIN", 2, 20, "Closed")>>,
                             <<Paper("P1")>>)),
     CIRMData(<<Grant("CLIN", 2, 20, "Closed")>>,
              <<Ordered(ActiveGrant("G2", 100, "Closed"), 2),
                Ordered(ActiveGrant("G1", 100, "Closed"), 1)>>,
              <<>>,
              Summary(4, 7, 9, 50, 3)),
     CIRMData(<<>>,
              <<ActiveGrant("G1", 200, "Active")>>,
              <<Paper("P2"), Paper("P1")>>,
              DerivedSummary(<<>>, <<Paper("P2"), Paper("P1")>>))}

(***************************************************************************)
(* Workbooks.  A sheet name is the sequence of its characters, a character *)
(* outside ASCII being written as its code point.  A cell is empty (the    *)
(* undefined that sheet_to_json leaves for it), a number or a text.        *)
(***************************************************************************)
\* sheetName.toLowerCase()
ToLowerCase(name) ==
    LET UpperCaseLetters ==
            <<"A", "B", "C", "D", "E", "F", "G", "H", "I", "J", "K", "L", "M",
              "N", "O", "P", "Q", "R", "S", "T", "U", "V", "W", "X", "Y", "Z">>
        LowerCaseLetters ==
            <<"a", "b", "c", "d", "e", "f", "g", "h", "i", "j", "k", "l", "m",
              "n", "o", "p", "q", "r", "s", "t", "u", "v", "w", "x", "y", "z">>
    IN  [i \in 1..Len(name) |->
            IF \E n \in 1..26 : UpperCaseLetters[n] = name[i]
            THEN LowerCaseLetters[CHOOSE n \in 1..26 : UpperCaseLetters[n] = name[i]]
            ELSE name[i]]

\* name.includes(part)
Includes(name, part) ==
    \E i \in 0..(Len(name) - Len(part)) : SubSeq(name, i + 1, i + Len(part)) = part

Empty == [empty |-> TRUE]
Num(n) == [num |-> n]
Str(t) == [str |-> t]

\* row[c], columns counted from 0
CellAt(row, c) == IF c + 1 \in DOMAIN row THEN row[c + 1] ELSE Empty

\* Number(cell) || 0: a text of this model is no numeral, so it yields NaN
\* and with it 0.
NumberOrZero(cell) == IF "num" \in DOMAIN cell THEN cell.num ELSE 0

\* String(cell || fallback)
StringOr(cell, fallback) ==
    IF "str" \in DOMAIN cell THEN (IF cell.str = "" THEN fallback ELSE cell.str)
    ELSE IF "num" \in DOMAIN cell /\ cell.num # 0 THEN ToString(cell.num)
    ELSE fallback

\* row[9] !== undefined ? Number(row[9]) : undefined, for a cell that is
\* empty or a number.
SortOrderOf(cell) == IF "num" \in DOMAIN cell THEN Some(cell.num) ELSE Undef


\* The records that a row yields when it is read as one type or another.
RowAsGrant(row) ==
    Grant(StringOr(CellAt(row, 1), ""), NumberOrZero(CellAt(row, 3)),
          NumberOrZero(CellAt(row, 4)), StringOr(CellAt(row, 5), "Active"))

RowAsActiveGrant(row) ==
    [ActiveGrant(StringOr(CellAt(row, 0), ""), NumberOrZero(CellAt(row, 6)),
                 StringOr(CellAt(row, 8), "Active"))
        EXCEPT !.sortOrder = SortOrderOf(CellAt(row, 9))]

RowAsPaper(row) == Paper(StringOr(CellAt(row, 0), ""))

\* rows.filter(row => row[0] !== undefined && row[0] !== null).map(...)
RowsAs(RowAs(_), rows) ==
    LET kept == SelectSeq(rows, LAMBDA row : CellAt(row, 0) # Empty)
    IN  [i \in 1..Len(kept) |-> RowAs(kept[i])]

Sheet(name, rows) == [name |-> name, rows |-> rows]

\* The branch of parseExcelFile that a sheet takes.
SheetBranch(sheetName) ==
    LET lowerName == ToLowerCase(sheetName)
    IN  IF Includes(lowerName, <<"g", "r", "a", "n", "t">>)
           \/ Includes(lowerName, <<"U+8D44", "U+52A9">>)
        THEN "grants"
        ELSE IF Includes(lowerName, <<"a", "c", "t", "i", "v", "e">>)
                \/ Includes(lowerName, <<"U+8FDB", "U+884C", "U+4E2D">>)
                \/ Includes(lowerName, <<"U+9879", "U+76EE">>)
        THEN "activeGrants"
        ELSE IF Includes(lowerName, <<"p", "a", "p", "e", "r">>)
                \/ Includes(lowerName, <<"U+6587", "U+732E">>)
                \/ Includes(lowerName, <<"U+8BBA", "U+6587">>)
        THEN "papers"
        ELSE "none"

\* workbook.SheetNames.forEach(...): each sheet's records are put after
\* those its list already has.
RECURSIVE ParseSheets(_, _)
ParseSheets(result, sheets) ==
    IF sheets = <<>> THEN result
    ELSE LET sheet == Head(sheets)
             branch == SheetBranch(sheet.name)
         IN  ParseSheets(
                 [grants |-> IF branch = "grants"
                             THEN result.grants \o RowsAs(RowAsGrant, sheet.rows)
                             ELSE result.grants,
                  activeGrants |-> IF branch = "activeGrants"
                                   THEN result.activeGrants
                                          \o RowsAs(RowAsActiveGrant, sheet.rows)
                                   ELSE result.activeGrants,
                  papers |-> IF branch = "papers"
                             THEN result.papers \o RowsAs(RowAsPaper, sheet.rows)
                             ELSE result.papers],
                 Tail(sheets))

\* parseExcelFile: what importData gets from a workbook.
parseExcelFile(sheets) ==
    LET result == ParseSheets([grants |-> <<>>, papers |-> <<>>, activeGrants |-> <<>>],
                              sheets)
    IN  Imported(Some(result.grants), Some(result.papers), Some(result.activeGrants))

\* An .xlsx file with these sheets.
Workbook(sheets) ==
    [ext |-> "xlsx", parses |-> TRUE, imported |-> parseExcelFile(sheets),
     sheets |-> sheets]

\* The editor's classifier (DataManagementSection.detectSheetType).
detectSheetType(sheetName) ==
    LET lowerName == ToLowerCase(sheetName)
    IN  IF Includes(lowerName, <<"a", "c", "t", "i", "v", "e">>)
           \/ Includes(lowerName, <<"U+8FDB", "U+884C", "U+4E2D">>)
           \/ Includes(lowerName, <<"U+5177", "U+4F53", "U+9879", "U+76EE">>)
        THEN "activeGrants"
        ELSE IF Includes(lowerName, <<"g", "r", "a", "n", "t">>)
                /\ ~Includes(lowerName, <<"a", "c", "t", "i", "v", "e">>)
        THEN "grants"
        ELSE IF Includes(lowerName, <<"p", "a", "p", "e", "r">>)
                \/ Includes(lowerName, <<"U+6587", "U+732E">>)
                \/ Includes(lowerName, <<"U+8BBA", "U+6587">>)
                \/ Includes(lowerName, <<"p", "u", "b", "l", "i", "c", "a", "t", "i", "o", "n">>)
        THEN "papers"
        ELSE "unknown"

\* The records the editor makes of a sheet's rows: the rows with a cell that
\* is not empty, read as the sheet's type, less the records without their
\* leading field.  The editor also reads the two previous-value columns.
EditorRecords(type, rows) ==
    LET filled == SelectSeq(rows, LAMBDA row :
                      \E c \in 0..(Len(row) - 1) :
                          CellAt(row, c) # Empty /\ CellAt(row, c) # Str(""))
        \* row[13] !== undefined && row[13] !== '' ? Number(row[13]) : null
        PreviousValueOf(cell) ==
            IF "num" \in DOMAIN cell THEN Some(cell.num) ELSE Undef
        \* row[14] !== undefined && row[14] !== '' ? String(row[14]) : null
        PreviousStatusOf(cell) ==
            IF cell = Empty \/ cell = Str("") THEN Undef ELSE Some(StringOr(cell, ""))
        read(row) ==
            IF type = "grants" THEN RowAsGrant(row)
            ELSE IF type = "papers" THEN RowAsPaper(row)
            ELSE [RowAsActiveGrant(row) EXCEPT
                     !.previousAwardValue = PreviousValueOf(CellAt(row, 13)),
                     !.previousAwardStatus = PreviousStatusOf(CellAt(row, 14))]
        kept(record) ==
            IF type = "grants" THEN record.grantType # ""
            ELSE IF type = "papers" THEN record.title # ""
            ELSE record.grantNumber # ""
    IN  SelectSeq([i \in 1..Len(filled) |-> read(filled[i])], kept)

\* workbook.SheetNames.forEach(...) of processEditorFile.
RECURSIVE ParseEditorSheets(_, _)
ParseEditorSheets(parsedData, sheets) ==
    IF sheets = <<>> THEN parsedData
    ELSE LET type == detectSheetType(Head(sheets).name)
         IN  ParseEditorSheets(
                 IF type = "unknown" THEN parsedData
                 ELSE [parsedData EXCEPT
                          ![type] = @ \o EditorRecords(type, Head(sheets).rows)],
                 Tail(sheets))

\* processEditorFile: what it leaves in editedData, always the three arrays.
processEditorFile(sheets) ==
    LET parsedData ==
            ParseEditorSheets([grants |-> <<>>, papers |-> <<>>, activeGrants |-> <<>>],
                              sheets)
    IN  Imported(Some(parsedData.grants), Some(parsedData.papers),
                 Some(parsedData.activeGrants))

\* Sheets, each holding a row of what its name announces, laid out as the
\* data template lays it out below the header row: the three sheets of the
\* data template (handleDownloadTemplate), the sheet of the import
\* template, and sheets under other names.
SheetsByName ==
    LET GrantRow ==
            <<Str("Discovery"), Str("DISC"), Str("2024-01-15"), Num(1), Num(10),
              Str("Active")>>
        ActiveGrantRow ==
            <<Str("G1"), Str("Discovery"), Str("DISC"), Str("Title"), Empty,
              Str("PI"), Num(200), Empty, Str("Closed"), Num(1)>>
        PaperRow == <<Str("P1"), Str("Topic"), Str("Authors")>>
    IN
    {Sheet(<<"G", "r", "a", "n", "t", "s">>, <<GrantRow>>),
     Sheet(<<"A", "c", "t", "i", "v", "e", "G", "r", "a", "n", "t", "s">>, <<ActiveGrantRow>>),
     Sheet(<<"P", "a", "p", "e", "r", "s">>, <<PaperRow>>),
     Sheet(<<"U+8FDB", "U+884C", "U+4E2D", "U+9879", "U+76EE">>,
           <<ActiveGrantRow>>),
     Sheet(<<"U+8D44", "U+52A9">>, <<GrantRow>>),
     Sheet(<<"U+8BBA", "U+6587">>, <<PaperRow>>),
     Sheet(<<"P", "u", "b", "l", "i", "c", "a", "t", "i", "o", "n", "s">>,
           <<PaperRow>>),
     Sheet(<<"S", "h", "e", "e", "t", "1">>, <<GrantRow>>)}

Workbooks == {Workbook(sheets) : sheets \in SeqsUpTo(SheetsByName, MaxSheets)}

\* The workbooks uploaded to the editor: sheets of the data template and a
\* sheet under another name.
EditorWorkbooks ==
    SeqsUpTo({sheet \in SheetsByName :
                 sheet.name \in {<<"G", "r", "a", "n", "t", "s">>,
                                 <<"A", "c", "t", "i", "v", "e", "G", "r", "a", "n", "t", "s">>,
                                 <<"P", "a", "p", "e", "r", "s">>,
                                 <<"S", "h", "e", "e", "t", "1">>}},
             MaxSheets)

(***************************************************************************)
(* The change log.                                                         *)
(***************************************************************************)
\* A change descriptor as a caller of recordChange builds it: no id yet.
\* No caller passes a snapshot, so the entry's optional snapshot field stays
\* undefined.
Change(type, entityType, entityId, key, old, new) ==
    [id |-> Undef, type |-> type, entityType |-> entityType, entityId |-> entityId,
     changes |-> [key |-> key, old |-> old, new |-> new],
     snapshot |-> Undef]

\* What Math.random().toString(36).substr(2, 9) can yield: a string of up to
\* nine base-36 digits, two of which stand for all of them here.
Suffixes == {"k3x9q2m1z", "i"}

\* `${Date.now()}-${Math.random().toString(36).substr(2, 9)}`
ChangeId(ms, suffix) == <<ms, suffix>>

\* Mutant: the new entry replaces the log (a stale `changes` of the first
\* render, which is empty).
recordChangeFromEmpty(log, change, id) == <<[change EXCEPT !.id = Some(id)]>>

\* Mutant: the log keeps its three most recent entries.
recordChangeCapped(log, change, id) ==
    SubSeq(<<[change EXCEPT !.id = Some(id)]>> \o log, 1,
           IF Len(log) < 3 THEN Len(log) + 1 ELSE 3)

\* Mutant: the new entry takes the place of the most recent one, as it would
\* when the list were built from a copy that does not have that entry yet.
recordChangeOnOlderCopy(log, change, id) ==
    <<[change EXCEPT !.id = Some(id)]>> \o (IF log = <<>> THEN <<>> ELSE Tail(log))

\* recordChange: newChange = {...change, id, timestamp};
\* setChanges(prev => [newChange, ...prev]).
recordChange(log, change, id) == <<[change EXCEPT !.id = Some(id)]>> \o log

\* The descriptor importData records.
ImportChange(imported) ==
    Change("update", "grant", "bulk-import", "imported", Undef,
           Some([grants |-> IF imported.grants = Undef THEN 0 ELSE Len(imported.grants[1]),
                 papers |-> IF imported.papers = Undef THEN 0 ELSE Len(imported.papers[1])]))

\* The descriptor updateData records (data?.summary.totalGrants || 0).
UpdateChange(d, newData) ==
    Change("update", "grant", "data-editor", "updated",
           Some([totalGrants |-> IF d = Null THEN 0 ELSE d.summary[1].totalGrants,
                 totalPapers |-> IF d = Null THEN 0 ELSE d.summary[1].totalPapers]),
           Some([totalGrants |-> newData.summary[1].totalGrants,
                 totalPapers |-> newData.summary[1].totalPapers]))

\* addGrants: newGrants.forEach(grant => recordChange({...})).
RECURSIVE RecordGrants(_, _, _)
RecordGrants(log, gs, ids) ==
    IF gs = <<>> THEN log
    ELSE RecordGrants(recordChange(log, Change("add", "grant", Head(gs).grantType, "added",
                                               Undef, Some(Head(gs))),
                                   Head(ids)),
                      Tail(gs), Tail(ids))

\* addPapers: newPapers.forEach(paper => recordChange({...})).
RECURSIVE RecordPapers(_, _, _)
RecordPapers(log, ps, ids) ==
    IF ps = <<>> THEN log
    ELSE RecordPapers(recordChange(log, Change("add", "paper", Head(ps).title, "added",
                                               Undef, Some(Head(ps))),
                                   Head(ids)),
                      Tail(ps), Tail(ids))

(***************************************************************************)
(* The merge of importData.                                                *)
(***************************************************************************)
\* A JavaScript Map keyed by grantNumber, kept in insertion order: a
\* sequence of records with distinct grant numbers.
MapGet(m, k) ==
    IF \E i \in 1..Len(m) : m[i].grantNumber = k
    THEN Some(m[CHOOSE i \in 1..Len(m) : m[i].grantNumber = k])
    ELSE Undef

\* Mutant: the lookup is an array that every record is pushed onto.
MapSetPushes(m, ag) == Append(m, ag)

MapSet(m, ag) ==
    IF \E i \in 1..Len(m) : m[i].grantNumber = ag.grantNumber
    THEN [i \in 1..Len(m) |-> IF m[i].grantNumber = ag.grantNumber THEN ag ELSE m[i]]
    ELSE Append(m, ag)

\* new Map(list.map(ag => [ag.grantNumber, ag]))
RECURSIVE MapFrom(_, _)
MapFrom(m, ags) ==
    IF ags = <<>> THEN m ELSE MapFrom(MapSet(m, Head(ags)), Tail(ags))

\* The body of `if (existing) { ... }`: the incoming record gets the
\* existing value / status when they differ from its own.
\* Mutant: the new value is kept as the previous one.
DetectValueChangeKeepsNew(existing, ag) ==
    IF existing.awardValue # ag.awardValue
    THEN [ag EXCEPT !.previousAwardValue = Some(ag.awardValue)]
    ELSE ag

DetectValueChange(existing, ag) ==
    IF existing.awardValue # ag.awardValue
    THEN [ag EXCEPT !.previousAwardValue = Some(existing.awardValue)]
    ELSE ag

\* Mutant: the existing status is kept without comparing it.
DetectStatusChangeAlways(existing, ag) ==
    [ag EXCEPT !.previousAwardStatus = Some(existing.awardStatus)]

\* Mutant: only a transition into "Closed" is kept.
DetectStatusChangeIntoClosed(existing, ag) ==
    IF existing.awardStatus # "Closed" /\ ag.awardStatus = "Closed"
    THEN [ag EXCEPT !.previousAwardStatus = Some(existing.awardStatus)]
    ELSE ag

DetectStatusChange(existing, ag) ==
    IF existing.awardStatus # ag.awardStatus
    THEN [ag EXCEPT !.previousAwardStatus = Some(existing.awardStatus)]
    ELSE ag

\* One turn of imported.activeGrants.forEach.
MergeOne(m, ag) ==
    LET existing == MapGet(m, ag.grantNumber)
    IN  IF existing # Undef
        THEN MapSet(m, DetectStatusChange(existing[1], DetectValueChange(existing[1], ag)))
        ELSE MapSet(m, ag)

RECURSIVE MergeEach(_, _)
MergeEach(m, ags) ==
    IF ags = <<>> THEN m ELSE MergeEach(MergeOne(m, Head(ags)), Tail(ags))

MergeActiveGrants(existing, incoming) ==
    IF incoming # Undef /\ Len(incoming[1]) > 0
    THEN Some(MergeEach(MapFrom(<<>>, existing[1]), incoming[1]))
    ELSE existing

\* Mutant: a record that is already there is not appended again.
RECURSIVE AppendNew(_, _)
AppendNew(rows, more) ==
    IF more = <<>> THEN rows
    ELSE AppendNew(IF \E i \in 1..Len(rows) : rows[i] = Head(more)
                   THEN rows ELSE Append(rows, Head(more)),
                   Tail(more))

AppendImportedDeduplicates(existing, incoming) ==
    IF incoming # Undef THEN Some(AppendNew(existing[1], incoming[1])) ELSE existing

\* [...data.grants, ...imported.grants] when imported.grants is there.
AppendImported(existing, incoming) ==
    IF incoming # Undef THEN Some(existing[1] \o incoming[1]) ELSE existing

CountOf(incoming) == IF incoming # Undef THEN Len(incoming[1]) ELSE 0

\* Mutant: totalProjects grows by the award values, not the award counts.
MergedSummarySwapsFields(sm, imported) ==
    [sm EXCEPT
        !.totalGrants = @ + CountOf(imported.grants),
        !.totalPapers = @ + CountOf(imported.papers),
        !.totalProjects =
            @ + (IF imported.grants # Undef THEN SumAwardValue(imported.grants[1]) ELSE 0),
        !.totalAmount =
            @ + (IF imported.grants # Undef THEN SumTotalAwards(imported.grants[1]) ELSE 0)]

\* The summary of mergedData: the counters of data.summary, incremented.
MergedSummary(sm, imported) ==
    [sm EXCEPT
        !.totalGrants = @ + CountOf(imported.grants),
        !.totalPapers = @ + CountOf(imported.papers),
        !.totalProjects =
            @ + (IF imported.grants # Undef THEN SumTotalAwards(imported.grants[1]) ELSE 0),
        !.totalAmount =
            @ + (IF imported.grants # Undef THEN SumAwardValue(imported.grants[1]) ELSE 0)]

\* A TypeError inside the merge: a field the merge dereferences is missing
\* from a document that an earlier import stored incomplete.
MergeThrows(d, imported) ==
    \/ imported.activeGrants # Undef /\ Len(imported.activeGrants[1]) > 0
       /\ d.activeGrants = Undef
    \/ imported.grants # Undef /\ d.grants = Undef
    \/ imported.papers # Undef /\ d.papers = Undef
    \/ d.summary = Undef

MergedData(d, imported) ==
    [d EXCEPT
        !.grants = AppendImported(d.grants, imported.grants),
        !.papers = AppendImported(d.papers, imported.papers),
        !.activeGrants = MergeActiveGrants(d.activeGrants, imported.activeGrants),
        !.summary = Some(MergedSummary(d.summary[1], imported))]

\* `!imported.grants && !imported.papers`
InvalidStructure(imported) == imported.grants = Undef /\ imported.papers = Undef

\* Mutant: the structure of the parsed content is not validated.
ImportFailsUnlessParsed(d, file) ==
    \/ ~file.parses
    \/ d # Null /\ MergeThrows(d, file.imported)

\* importData fails: the file cannot be read or parsed, the parsed content
\* has neither grants nor papers, or the merge throws.
ImportFails(d, file) ==
    \/ ~file.parses
    \/ InvalidStructure(file.imported)
    \/ d # Null /\ MergeThrows(d, file.imported)

\* Mutant: without a data set only the lists that the validation looks at
\* are taken over.
ImportResultValidatedOnly(d, imported) ==
    IF d # Null THEN MergedData(d, imported)
    ELSE [imported EXCEPT !.activeGrants = Undef]

\* The document importData hands to saveData.
ImportResult(d, imported) ==
    IF d # Null THEN MergedData(d, imported) ELSE imported

(***************************************************************************)
(* exportData and the JSON text.  A JSON object is a function from the     *)
(* names of its members to their values: JSON.stringify leaves out the     *)
(* members whose value is undefined, and JSON.parse yields an object on     *)
(* which the fields without a member read as undefined.                    *)
(***************************************************************************)
DocumentKeys == {"grants", "papers", "activeGrants", "summary"}

OptionalKeys == {"sortOrder", "previousAwardValue", "previousAwardStatus"}

RequiredKeys == {"grantNumber", "awardValue", "awardStatus"}

StringifyActiveGrant(ag) ==
    [k \in RequiredKeys \cup {k \in OptionalKeys : ag[k] # Undef} |->
        IF k \in OptionalKeys THEN ag[k][1] ELSE ag[k]]

ParseActiveGrant(o) ==
    [k \in RequiredKeys \cup OptionalKeys |->
        IF k \in OptionalKeys
        THEN (IF k \in DOMAIN o THEN Some(o[k]) ELSE Undef)
        ELSE o[k]]

\* JSON.stringify(data, null, 2)
JsonStringify(d) ==
    [k \in {k \in DocumentKeys : d[k] # Undef} |->
        IF k = "activeGrants"
        THEN [i \in 1..Len(d[k][1]) |-> StringifyActiveGrant(d[k][1][i])]
        ELSE d[k][1]]

\* JSON.parse(text)
JsonParse(text) ==
    [k \in DocumentKeys |->
        IF k \in DOMAIN text
        THEN Some(IF k = "activeGrants"
                  THEN [i \in 1..Len(text[k]) |-> ParseActiveGrant(text[k][i])]
                  ELSE text[k])
        ELSE Undef]

\* exportData: null without a data set.
exportData(d) == IF d = Null THEN Null ELSE JsonStringify(d)

\* The file that the export of d is saved as.
ExportedFile(d) == Json(JsonParse(exportData(d)))

(***************************************************************************)
(* The editor's apply (DataManagementSection.handleApplyChanges).          *)
(***************************************************************************)
\* existingMap.set(ag.grantNumber, ag) for each edited record: no change
\* detection on this path.
AppliedActiveGrants(existing, edited) ==
    IF edited # Undef /\ Len(edited[1]) > 0
    THEN Some(MapFrom(MapFrom(<<>>, existing[1]), edited[1]))
    ELSE existing

\* editedData.grants || data.grants
OrElse(edited, existing) == IF edited # Undef THEN edited ELSE existing

\* The summary of newData: recomputed from the arrays newData gets.
AppliedSummary(gs, ps) ==
    Summary(Len(gs), Len(ps), SumTotalAwards(gs), SumAwardValue(gs),
            SumTotalAwards(NotClosed(gs)))

ApplyThrows(d, edited) ==
    \/ edited.activeGrants # Undef /\ Len(edited.activeGrants[1]) > 0
       /\ d.activeGrants = Undef
    \/ OrElse(edited.grants, d.grants) = Undef
    \/ OrElse(edited.papers, d.papers) = Undef

AppliedData(d, edited) ==
    [d EXCEPT
        !.grants = OrElse(edited.grants, d.grants),
        !.papers = OrElse(edited.papers, d.papers),
        !.activeGrants = AppliedActiveGrants(d.activeGrants, edited.activeGrants),
        !.summary = Some(AppliedSummary(OrElse(edited.grants, d.grants)[1],
                                        OrElse(edited.papers, d.papers)[1]))]

(***************************************************************************)
(* The template of the current data (handleDownloadTemplate).              *)
(***************************************************************************)
\* (a.sortOrder ?? Number.MAX_SAFE_INTEGER) - (b.sortOrder ?? ...) < 0, for
\* sort orders below that number.
SortsBefore(a, b) ==
    /\ a.sortOrder # Undef
    /\ b.sortOrder = Undef \/ a.sortOrder[1] < b.sortOrder[1]

\* Array.prototype.sort is stable: a record goes before the first one that
\* it sorts before.
InsertInOrder(sorted, ag) ==
    LET later == {i \in 1..Len(sorted) : SortsBefore(ag, sorted[i])}
        at == IF later = {} THEN Len(sorted) + 1
              ELSE CHOOSE i \in later : \A j \in later : i <= j
    IN  SubSeq(sorted, 1, at - 1) \o <<ag>> \o SubSeq(sorted, at, Len(sorted))

RECURSIVE SortInto(_, _)
SortInto(sorted, ags) ==
    IF ags = <<>> THEN sorted ELSE SortInto(InsertInOrder(sorted, Head(ags)), Tail(ags))

\* data.activeGrants.sort(...): the array itself, reordered.
SortBySortOrder(ags) == SortInto(<<>>, ags)

\* The handler throws before it sorts: data.grants.map, data.activeGrants.sort.
TemplateThrows(d) == d.grants = Undef \/ d.activeGrants = Undef

(***************************************************************************)
(* addGrants / addPapers.                                                  *)
(***************************************************************************)
GrantsAdded(d, newGrants) ==
    [d EXCEPT
        !.grants = Some(d.grants[1] \o newGrants),
        !.summary = Some([d.summary[1] EXCEPT
            !.totalGrants = @ + Len(newGrants),
            !.totalProjects = @ + SumTotalAwards(newGrants),
            !.totalAmount = @ + SumAwardValue(newGrants)])]

PapersAdded(d, newPapers) ==
    [d EXCEPT
        !.papers = Some(d.papers[1] \o newPapers),
        !.summary = Some([d.summary[1] EXCEPT !.totalPapers = @ + Len(newPapers)])]

(***************************************************************************)
(* State machine.                                                          *)
(***************************************************************************)
\* No merge is looked at object by object.
NoObjects == [heap |-> <<>>, data |-> 0, imported |-> 0, held |-> 0, before |-> <<>>]

(***************************************************************************)
(* The access middleware (functions/_middleware.js), in its two versions.  *)
(* A Cookie header and a Set-Cookie value are the sequences of their       *)
(* characters; a header or a form field that is absent is Undef.           *)
(***************************************************************************)
AuthValid == <<"a", "u", "t", "h", "=", "v", "a", "l", "i", "d">>

Middlewares == {"functions/_middleware.js", "part_008"}

\* env.USERNAME and env.PASSWORD: not set, set, or set to the empty string.
Envs ==
    {[USERNAME |-> Undef, PASSWORD |-> Undef],
     [USERNAME |-> Some("root"), PASSWORD |-> Some("s3cret")],
     [USERNAME |-> Some(""), PASSWORD |-> Some("s3cret")]}

Deployment(source, env) == [source |-> source, env |-> env]

\* The pages served without the middleware.
Unprotected == Deployment("none", [USERNAME |-> Undef, PASSWORD |-> Undef])

\* env.NAME || fallback
EnvOr(value, fallback) ==
    IF value = Undef \/ value = Some("") THEN fallback ELSE value[1]

VALID_USERNAME(d) ==
    IF d.source = "part_008" THEN EnvOr(d.env.USERNAME, "admin") ELSE "admin"

VALID_PASSWORD(d) ==
    IF d.source = "part_008" THEN EnvOr(d.env.PASSWORD, "cirm2026") ELSE "cirm2026"

Request(method, pathname, cookie, username, password) ==
    [method |-> method, pathname |-> pathname, cookie |-> cookie,
     username |-> username, password |-> password]

\* A response of the middleware: next() or a response of its own.
Response(forwarded, status, setCookie) ==
    [forwarded |-> forwarded, status |-> status, setCookie |-> setCookie]

SetCookie(value, maxAge) == [value |-> value, maxAge |-> maxAge]

\* cookie.includes('auth=valid') of (request.headers.get('Cookie') || '')
IsLoggedInAnyAuth(request) ==
    Includes(IF request.cookie = Undef THEN <<>> ELSE request.cookie[1],
             <<"a", "u", "t", "h", "=">>)

IsLoggedIn(request) ==
    Includes(IF request.cookie = Undef THEN <<>> ELSE request.cookie[1], AuthValid)

\* username === VALID_USERNAME && password === VALID_PASSWORD
CredentialsMatch(d, request) ==
    /\ request.username = Some(VALID_USERNAME(d))
    /\ request.password = Some(VALID_PASSWORD(d))

onRequest(d, request) ==
    IF d.source = "part_008" /\ request.pathname = "/logout"
    THEN Response(FALSE, 302, Some(SetCookie(<<"a", "u", "t", "h", "=">>, 0)))
    ELSE IF IsLoggedIn(request)
            /\ (d.source = "part_008" => request.pathname # "/login")
    THEN Response(TRUE, 200, Undef)
    ELSE IF request.method = "POST"
    THEN IF CredentialsMatch(d, request)
         THEN Response(FALSE, 302, Some(SetCookie(AuthValid, 86400)))
         ELSE Response(FALSE, 200, Undef)
    ELSE Response(FALSE, 200, Undef)

\* The browser's cookie jar, as the Cookie header it sends, after a response.
JarAfter(jar, response) ==
    IF response.setCookie = Undef THEN jar
    ELSE IF response.setCookie[1].maxAge = 0 THEN Undef
    ELSE Some(response.setCookie[1].value)

NewClient == [jar |-> Undef, submittedValid |-> FALSE, sentOwnCookie |-> FALSE]

Methods == {"GET", "POST"}
Pathnames == {"/", "/login", "/logout"}
Usernames == {Undef, Some("admin"), Some("root")}
Passwords == {Undef, Some("cirm2026"), Some("s3cret")}

\* Cookie headers that a client makes up.
OwnCookies ==
    {Some(AuthValid), Some(<<"a", "u", "t", "h", "=">>), Some(<<"x", "a", "u", "t", "h", "=", "v", "a", "l", "i", "d", ";", " ", "a", "=", "1">>),
     Some(<<"t", "h", "e", "m", "e", "=", "d", "a", "r", "k">>)}

\* What `last` records of an operation: the data it read, its input, the
\* change log before it, and whether it went through.
Done(op, ok, pre, input, log) ==
    [op |-> op, ok |-> ok, pre |-> pre, input |-> input, log |-> log]

RemoveAt(q, i) == SubSeq(q, 1, i - 1) \o SubSeq(q, i + 1, Len(q))

\* Array objects are told apart by a number.  Only the suspended importData
\* calls hold on to an array that data.activeGrants no longer is, so a new
\* array gets the least number that none of them holds.
FreshRef(q) ==
    CHOOSE r \in 0..Len(q) :
        /\ \A i \in 1..Len(q) : q[i].ref # r
        /\ \A r2 \in 0..(r - 1) : \E i \in 1..Len(q) : q[i].ref = r2

\* App renders the sections that call the store only once loading is over
\* and data is there.
Ready == ~loading /\ data # Null

Init ==
    /\ mem = NoObjects
    /\ activeGrantsRef = 0
    /\ deployment = Unprotected
    /\ client = NewClient
    /\ data = Null
    /\ loading = TRUE
    /\ error = Undef
    /\ changes = <<>>
    /\ stored \in {Null} \cup Documents
    /\ storedChanges = Undef
    /\ inflight = <<>>
    /\ editedData = Null
    /\ now = 2
    /\ quotaExceeded = FALSE
    /\ last = Done("none", TRUE, Null, Imported(Undef, Undef, Undef), <<>>)
    /\ ops = 0

\* loadData, stored document found.
LoadStored ==
    /\ UNCHANGED mem
    /\ UNCHANGED <<deployment, client>>
    /\ activeGrantsRef' = FreshRef(inflight)
    /\ loading
    /\ stored # Null
    /\ stored # Corrupt
    /\ data' = stored
    /\ changes' = IF storedChanges # Undef THEN storedChanges[1] ELSE changes
    /\ loading' = FALSE
    /\ last' = Done("load", TRUE, Null, stored, changes)
    /\ UNCHANGED <<error, stored, storedChanges, inflight, editedData, now,
                   quotaExceeded, ops>>

\* loadData, the stored item cannot be parsed: JSON.parse throws, the catch
\* sets the error and the finally ends the loading.
LoadCorrupt ==
    /\ loading
    /\ stored = Corrupt
    /\ error' = Some("SyntaxError")
    /\ loading' = FALSE
    /\ last' = Done("load", FALSE, Null, Imported(Undef, Undef, Undef), changes)
    /\ UNCHANGED <<data, changes, stored, storedChanges, inflight, editedData, now,
                   quotaExceeded, mem, activeGrantsRef, deployment, client, ops>>

\* Mutant: the remote document is fetched whether or not one is stored.
LoadFetchedAlways ==
    /\ UNCHANGED mem
    /\ UNCHANGED <<deployment, client>>
    /\ activeGrantsRef' = FreshRef(inflight)
    /\ loading
    /\ \E doc \in Documents :
        /\ data' = doc
        /\ stored' = IF quotaExceeded THEN stored ELSE doc
        /\ last' = Done("load", ~quotaExceeded, Null, doc, changes)
    /\ changes' = IF ~quotaExceeded /\ storedChanges # Undef
                  THEN storedChanges[1] ELSE changes
    /\ error' = IF quotaExceeded THEN Some("QuotaExceededError") ELSE error
    /\ loading' = FALSE
    /\ UNCHANGED <<storedChanges, inflight, editedData, now, quotaExceeded, ops>>

\* loadData, nothing stored: the fetched document is set and persisted, then
\* the change history is read.  A failing write ends in the catch.
LoadFetched ==
    /\ UNCHANGED mem
    /\ UNCHANGED <<deployment, client>>
    /\ activeGrantsRef' = FreshRef(inflight)
    /\ loading
    /\ stored = Null
    /\ \E doc \in Documents :
        /\ data' = doc
        /\ stored' = IF quotaExceeded THEN stored ELSE doc
        /\ last' = Done("load", ~quotaExceeded, Null, doc, changes)
    /\ changes' = IF ~quotaExceeded /\ storedChanges # Undef
                  THEN storedChanges[1] ELSE changes
    /\ error' = IF quotaExceeded THEN Some("QuotaExceededError") ELSE error
    /\ loading' = FALSE
    /\ UNCHANGED <<storedChanges, inflight, editedData, now, quotaExceeded, ops>>

\* loadData, nothing stored and the fetch fails.
LoadFailed ==
    /\ UNCHANGED <<mem, activeGrantsRef, deployment, client>>
    /\ loading
    /\ stored = Null
    /\ error' = Some("Failed to load data")
    /\ loading' = FALSE
    /\ last' = Done("load", FALSE, Null, Imported(Undef, Undef, Undef), changes)
    /\ UNCHANGED <<data, changes, stored, storedChanges, inflight, editedData, now,
                   quotaExceeded, ops>>

\* importData(file) is called and suspends in the file read.  The callback
\* was created by the render that saw `data`, and keeps that object.
ImportSuspend(file) ==
    /\ UNCHANGED <<mem, activeGrantsRef, deployment, client>>
    /\ Len(inflight) < MaxInFlight
    /\ inflight' = Append(inflight, [file |-> file, data |-> data,
                                     ref |-> activeGrantsRef])
    /\ ops' = ops + 1
    /\ UNCHANGED <<data, loading, error, changes, stored, storedChanges, editedData,
                   now, quotaExceeded, last>>

\* ... as the data-management section calls it.
ImportCall(file) == Ready /\ ImportSuspend(file)

\* The rest of importData, once the file has been read.  saveData sets the
\* state and then writes the document; when the write throws, importData
\* is in its catch before it records the change.
ImportResolve(i, suffix) ==
    LET d == inflight[i].data
        file == inflight[i].file
        \* mergedActiveGrants is data.activeGrants itself unless the file
        \* brings active grants
        ref == IF d # Null /\ ~(file.imported.activeGrants # Undef
                                   /\ Len(file.imported.activeGrants[1]) > 0)
               THEN inflight[i].ref
               ELSE FreshRef(RemoveAt(inflight, i))
    IN  /\ inflight' = RemoveAt(inflight, i)
        /\ UNCHANGED <<deployment, client>>
        /\ activeGrantsRef' = IF ImportFails(d, file) THEN activeGrantsRef ELSE ref
        /\ IF ImportFails(d, file)
           THEN /\ error' = Some("Import failed")
                /\ last' = Done("import", FALSE, d, file.imported, changes)
                /\ UNCHANGED <<data, stored, changes, storedChanges>>
           ELSE IF quotaExceeded
           THEN /\ data' = ImportResult(d, file.imported)
                /\ error' = Some("QuotaExceededError")
                /\ last' = Done("import", FALSE, d, file.imported, changes)
                /\ UNCHANGED <<stored, changes, storedChanges>>
           ELSE /\ data' = ImportResult(d, file.imported)
                /\ stored' = ImportResult(d, file.imported)
                /\ changes' = recordChange(changes, ImportChange(file.imported),
                                           ChangeId(now, suffix))
                /\ storedChanges' = Some(changes')
                /\ last' = Done("import", TRUE, d, file.imported, changes)
                /\ UNCHANGED error
        /\ UNCHANGED <<loading, editedData, now, quotaExceeded, mem, ops>>

\* processEditorFile: the parsed upload becomes editedData.
ProcessEditorFile(upload) ==
    /\ UNCHANGED <<mem, activeGrantsRef, deployment, client>>
    /\ Ready
    /\ editedData' = upload
    /\ UNCHANGED <<data, loading, error, changes, stored, storedChanges, inflight,
                   now, quotaExceeded, last, ops>>

\* handleDeleteRow: the row leaves its preview sheet and the records of the
\* sheet's type are parsed again from the rows that are left.  (One sheet
\* per type, every row of which yields a record.)
HandleDeleteRow(type, rowIndex) ==
    /\ Ready
    /\ editedData # Null
    /\ rowIndex \in 1..Len(editedData[type][1])
    /\ editedData' = [editedData EXCEPT ![type] = Some(RemoveAt(@[1], rowIndex))]
    /\ UNCHANGED <<data, loading, error, changes, stored, storedChanges, inflight,
                   now, quotaExceeded, mem, activeGrantsRef, deployment, client, last, ops>>

\* handleCellEdit: a cell of the row gets a new value and the records of the
\* sheet's type are parsed again; `record` is what the edited row yields.
HandleCellEdit(type, rowIndex, record) ==
    /\ Ready
    /\ editedData # Null
    /\ rowIndex \in 1..Len(editedData[type][1])
    /\ editedData' = [editedData EXCEPT ![type] = Some([@[1] EXCEPT ![rowIndex] = record])]
    /\ UNCHANGED <<data, loading, error, changes, stored, storedChanges, inflight,
                   now, quotaExceeded, mem, activeGrantsRef, deployment, client, last, ops>>

\* handleApplyChanges, with the updateData it calls.  An exception of
\* updateData (the write of saveData, or building the descriptor) leaves
\* the handler before it clears editedData.
ApplyChanges(suffix) ==
    /\ UNCHANGED mem
    /\ editedData # Null
    /\ data # Null
    /\ ops' = ops + 1
    /\ IF ApplyThrows(data, editedData)
       THEN /\ last' = Done("apply", FALSE, data, editedData, changes)
            /\ UNCHANGED <<data, stored, changes, storedChanges, editedData,
                           activeGrantsRef, deployment, client>>
       ELSE /\ data' = AppliedData(data, editedData)
            /\ UNCHANGED <<deployment, client>>
            /\ activeGrantsRef' =
                   IF editedData.activeGrants # Undef /\ Len(editedData.activeGrants[1]) > 0
                   THEN FreshRef(inflight) ELSE activeGrantsRef
            /\ IF quotaExceeded
               THEN /\ last' = Done("apply", FALSE, data, editedData, changes)
                    /\ UNCHANGED <<stored, changes, storedChanges, editedData>>
               ELSE /\ stored' = AppliedData(data, editedData)
                    /\ IF data.summary = Undef
                       THEN /\ last' = Done("apply", FALSE, data, editedData, changes)
                            /\ UNCHANGED <<changes, storedChanges, editedData>>
                       ELSE /\ changes' =
                                 recordChange(changes,
                                              UpdateChange(data, AppliedData(data, editedData)),
                                              ChangeId(now, suffix))
                            /\ storedChanges' = Some(changes')
                            /\ editedData' = Null
                            /\ last' = Done("apply", TRUE, data, editedData, changes)
    /\ UNCHANGED <<loading, error, inflight, now, quotaExceeded>>

\* The ids of n changes recorded in the current millisecond.
IdsNow(n) == {[k \in 1..n |-> ChangeId(now, sfx[k])] : sfx \in [1..n -> Suffixes]}

\* addGrants(newGrants)
AddGrants(newGrants, ids) ==
    /\ UNCHANGED <<mem, activeGrantsRef, deployment, client>>
    /\ Ready
    /\ data.grants # Undef /\ data.summary # Undef
    /\ data' = GrantsAdded(data, newGrants)
    /\ IF quotaExceeded
       THEN /\ last' = Done("addGrants", FALSE, data,
                            Imported(Some(newGrants), Undef, Undef), changes)
            /\ UNCHANGED <<stored, changes, storedChanges>>
       ELSE /\ stored' = GrantsAdded(data, newGrants)
            /\ changes' = RecordGrants(changes, newGrants, ids)
            /\ storedChanges' = Some(changes')
            /\ last' = Done("addGrants", TRUE, data,
                            Imported(Some(newGrants), Undef, Undef), changes)
    /\ ops' = ops + 1
    /\ UNCHANGED <<loading, error, inflight, editedData, now, quotaExceeded>>

\* addPapers(newPapers)
AddPapers(newPapers, ids) ==
    /\ UNCHANGED <<mem, activeGrantsRef, deployment, client>>
    /\ Ready
    /\ data.papers # Undef /\ data.summary # Undef
    /\ data' = PapersAdded(data, newPapers)
    /\ IF quotaExceeded
       THEN /\ last' = Done("addPapers", FALSE, data,
                            Imported(Undef, Some(newPapers), Undef), changes)
            /\ UNCHANGED <<stored, changes, storedChanges>>
       ELSE /\ stored' = PapersAdded(data, newPapers)
            /\ changes' = RecordPapers(changes, newPapers, ids)
            /\ storedChanges' = Some(changes')
            /\ last' = Done("addPapers", TRUE, data,
                            Imported(Undef, Some(newPapers), Undef), changes)
    /\ ops' = ops + 1
    /\ UNCHANGED <<loading, error, inflight, editedData, now, quotaExceeded>>

\* The array that `ref` names, sorted in the data set of every suspended
\* importData that holds it.
SortHeld(q, ref) ==
    [i \in 1..Len(q) |->
        IF q[i].ref = ref /\ q[i].data # Null /\ q[i].data.activeGrants # Undef
        THEN [q[i] EXCEPT !.data.activeGrants = Some(SortBySortOrder(@[1]))]
        ELSE q[i]]

\* handleDownloadTemplate: the workbook is built from `data`; the sort that
\* orders its ActiveGrants sheet works on data.activeGrants itself.  Neither
\* setData nor localStorage is involved.
HandleDownloadTemplate ==
    /\ Ready
    /\ IF TemplateThrows(data)
       THEN /\ last' = Done("downloadTemplate", FALSE, data,
                            Imported(Undef, Undef, Undef), changes)
            /\ UNCHANGED <<data, inflight>>
       ELSE /\ data' = [data EXCEPT !.activeGrants = Some(SortBySortOrder(@[1]))]
            /\ inflight' = SortHeld(inflight, activeGrantsRef)
            /\ last' = Done("downloadTemplate", data.papers # Undef, data,
                            Imported(Undef, Undef, Undef), changes)
    /\ UNCHANGED <<loading, error, changes, stored, storedChanges, editedData, now,
                   quotaExceeded, mem, activeGrantsRef, deployment, client, ops>>

(***************************************************************************)
(* Spec: every operation of the store, on a small set of inputs.           *)
(***************************************************************************)
Import == ops < MaxOps /\ \E file \in Files : ImportCall(file)

Resolve == \E i \in 1..Len(inflight), suffix \in Suffixes : ImportResolve(i, suffix)

Upload == \E upload \in EditorUploads : ProcessEditorFile(upload)

Apply == ops < MaxOps /\ \E suffix \in Suffixes : ApplyChanges(suffix)

Add == ops < MaxOps /\ \/ \E gs \in AddedGrants : \E ids \in IdsNow(Len(gs)) : AddGrants(gs, ids)
                       \/ \E ps \in AddedPapers : \E ids \in IdsNow(Len(ps)) : AddPapers(ps, ids)

Next ==
    \/ LoadStored
    \/ LoadFetched
    \/ LoadFailed
    \/ Import
    \/ Resolve
    \/ Upload
    \/ Apply
    \/ Add

Spec == Init /\ [][Next]_vars

(***************************************************************************)
(* SpecImport: importData alone, on every file of up to MaxBatch rows.     *)
(***************************************************************************)
ImportAny == ops < MaxImportOps /\ \E file \in ImportFiles : ImportCall(file)

\* The merge does not read the ids of the change log: one suffix stands for
\* all here.
ResolveAny == \E i \in 1..Len(inflight) : ImportResolve(i, "k3x9q2m1z")

NextImport ==
    \/ LoadStored
    \/ LoadFetched
    \/ LoadFailed
    \/ ImportAny
    \/ ResolveAny

SpecImport == Init /\ [][NextImport]_vars

(***************************************************************************)
(* rollbackChange.  The hook that App.tsx imports returns it, but the      *)
(* source of that hook does not define it; it is modelled as the           *)
(* specification describes rollback(changeId).                             *)
(***************************************************************************)
\* Mutant: the lookup skips the entries without snapshot and, when no entry
\* has the id, takes the most recent one that is left.
FindChangeOrLatest(log, changeId) ==
    LET undoable == SelectSeq(log, LAMBDA c : c.snapshot # Undef)
    IN  IF \E i \in 1..Len(undoable) : undoable[i].id = Some(changeId)
        THEN Some(undoable[CHOOSE i \in 1..Len(undoable) :
                              /\ undoable[i].id = Some(changeId)
                              /\ \A j \in 1..(i - 1) : undoable[j].id # Some(changeId)])
        ELSE IF undoable # <<>> THEN Some(undoable[1]) ELSE Undef

\* changes.find(c => c.id === changeId)
FindChange(log, changeId) ==
    IF \E i \in 1..Len(log) : log[i].id = Some(changeId)
    THEN Some(log[CHOOSE i \in 1..Len(log) :
                    /\ log[i].id = Some(changeId)
                    /\ \A j \in 1..(i - 1) : log[j].id # Some(changeId)])
    ELSE Undef

\* NotFound: no entry has the id, or the entry carries no snapshot.
RollbackFails(log, changeId) ==
    \/ FindChange(log, changeId) = Undef
    \/ FindChange(log, changeId)[1].snapshot = Undef

\* Mutant: the summary is left as it is.
RolledBackKeepsSummary(d, snapshot) ==
    [d EXCEPT !.grants = snapshot.grants, !.activeGrants = snapshot.activeGrants,
              !.papers = snapshot.papers]

\* The current state with the four snapshot fields put back.
RolledBack(d, snapshot) ==
    [d EXCEPT !.grants = snapshot.grants, !.activeGrants = snapshot.activeGrants,
              !.papers = snapshot.papers, !.summary = snapshot.summary]

\* What `last` records of a rollback as its input: the id, and the id and
\* outcome of the rollback before it when that was the previous operation.
RollbackInput(changeId) ==
    [changeId |-> changeId,
     previous |-> IF last.op = "rollback"
                  THEN Some([changeId |-> last.input.changeId, ok |-> last.ok])
                  ELSE Undef]

\* Mutant: the rollback is recorded as a change of its own.
RollbackChangeLogged(changeId) ==
    /\ UNCHANGED mem
    /\ Ready
    /\ IF RollbackFails(changes, changeId)
       THEN /\ last' = Done("rollback", FALSE, data, RollbackInput(changeId), changes)
            /\ UNCHANGED <<data, stored, changes, storedChanges, activeGrantsRef, deployment, client>>
       ELSE /\ data' = RolledBack(data, FindChange(changes, changeId)[1].snapshot[1])
            /\ UNCHANGED <<deployment, client>>
            /\ activeGrantsRef' = FreshRef(inflight)
            /\ stored' = IF quotaExceeded THEN stored ELSE data'
            /\ changes' = recordChange(changes,
                                       Change("update", "grant", "rollback", "restored",
                                              Undef, Undef),
                                       ChangeId(now, "i"))
            /\ storedChanges' = Some(changes')
            /\ last' = Done("rollback", TRUE, data, RollbackInput(changeId), changes)
    /\ UNCHANGED <<loading, error, inflight, editedData, now, quotaExceeded, ops>>

\* rollback(changeId).  The log is left alone; a failing write of the
\* document is caught at the write.
RollbackChange(changeId) ==
    /\ UNCHANGED mem
    /\ Ready
    /\ IF RollbackFails(changes, changeId)
       THEN /\ last' = Done("rollback", FALSE, data, RollbackInput(changeId), changes)
            /\ UNCHANGED <<data, stored, activeGrantsRef, deployment, client>>
       ELSE /\ data' = RolledBack(data, FindChange(changes, changeId)[1].snapshot[1])
            /\ UNCHANGED <<deployment, client>>
            /\ activeGrantsRef' = FreshRef(inflight)
            /\ stored' = IF quotaExceeded THEN stored ELSE data'
            /\ last' = Done("rollback", TRUE, data, RollbackInput(changeId), changes)
    /\ UNCHANGED <<changes, storedChanges>>
    /\ UNCHANGED <<loading, error, inflight, editedData, now, quotaExceeded, ops>>

(***************************************************************************)
(* SpecRollback: a session that finds the change history of an earlier     *)
(* one, imports, applies edits and rolls back.                             *)
(***************************************************************************)
\* An entry as it is read back from localStorage['cirm-changes'].
StoredEntry(id, snapshot) ==
    [Change("update", "grant", "bulk-import", "imported", Undef,
            Some([grants |-> 1, papers |-> 0]))
        EXCEPT !.id = Some(id), !.snapshot = snapshot]

\* The change history of an earlier session, most recent first: an entry
\* without snapshot and two entries with one.
StoredLogs ==
    {<<StoredEntry(ChangeId(1, "i"), Undef),
       StoredEntry(ChangeId(1, "k3x9q2m1z"),
                   Some(CIRMData(<<Grant("CLIN", 2, 20, "Closed")>>,
                                 <<ActiveGrant("G1", 100, "Active")>>,
                                 <<Paper("P1")>>,
                                 DerivedSummary(<<Grant("CLIN", 2, 20, "Closed")>>,
                                                <<Paper("P1")>>)))),
       StoredEntry(ChangeId(0, "i"),
                   Some(CIRMData(<<>>, <<>>, <<>>, DerivedSummary(<<>>, <<>>))))>>}

InitRollback ==
    /\ mem = NoObjects
    /\ activeGrantsRef = 0
    /\ deployment = Unprotected
    /\ client = NewClient
    /\ data = Null
    /\ loading = TRUE
    /\ error = Undef
    /\ changes = <<>>
    /\ stored \in {Null} \cup Documents
    /\ storedChanges \in {Undef} \cup {Some(log) : log \in StoredLogs}
    /\ inflight = <<>>
    /\ editedData = Null
    /\ now = 2
    /\ quotaExceeded = FALSE
    /\ last = Done("none", TRUE, Null, Imported(Undef, Undef, Undef), <<>>)
    /\ ops = 0

ImportLogged ==
    ops < MaxRollbackOps /\
        \E file \in {Xlsx(<<Grant("DISC", 1, 10, "Active")>>, <<Paper("P2")>>,
                          <<ActiveGrant("G2", 100, "Closed")>>),
                     Unreadable("json")} : ImportCall(file)

UploadLogged ==
    ProcessEditorFile(Imported(Some(<<Grant("CLIN", 2, 20, "Closed")>>),
                               Some(<<Paper("P2")>>), Some(<<>>)))

ApplyLogged == ops < MaxRollbackOps /\ \E suffix \in Suffixes : ApplyChanges(suffix)

\* The ids a caller can pass: those of the log and one that no entry has.
Rollback ==
    \E changeId \in {changes[i].id[1] : i \in 1..Len(changes)} \cup {ChangeId(0, "absent")} :
        RollbackChange(changeId)

NextRollback ==
    \/ LoadStored
    \/ LoadFetched
    \/ LoadFailed
    \/ ImportLogged
    \/ ResolveAny
    \/ UploadLogged
    \/ ApplyLogged
    \/ Rollback

SpecRollback == InitRollback /\ [][NextRollback]_vars

(***************************************************************************)
(* SpecStore: the operations as the hook exposes them, with the clock and  *)
(* the storage quota.                                                      *)
(***************************************************************************)
\* A millisecond passes.
Tick ==
    /\ UNCHANGED <<mem, activeGrantsRef, deployment, client>>
    /\ now < 2 + MaxClock
    /\ now' = now + 1
    /\ UNCHANGED <<data, loading, error, changes, stored, storedChanges, inflight,
                   editedData, quotaExceeded, last, ops>>

\* The origin's storage fills up: from now on the document no longer fits.
Exceed ==
    /\ UNCHANGED <<mem, activeGrantsRef, deployment, client>>
    /\ ~quotaExceeded
    /\ quotaExceeded' = TRUE
    /\ UNCHANGED <<data, loading, error, changes, stored, storedChanges, inflight,
                   editedData, now, last, ops>>

\* importData called on the hook, whether or not a data set is there.
ImportStore ==
    ops < MaxStoreOps /\ ~loading /\
        \E file \in {Xlsx(<<Grant("DISC", 1, 10, "Active")>>, <<Paper("P2")>>,
                          <<ActiveGrant("G2", 100, "Closed")>>),
                     Json(Imported(Undef, Undef, Some(<<ActiveGrant("G3", 200, "Active")>>))),
                     Xlsx(<<>>, <<>>, <<ActiveGrant("G1", 100, "Active"),
                                        ActiveGrant("G1", 200, "Closed")>>),
                     Unreadable("json")} : ImportSuspend(file)

UploadStore ==
    ProcessEditorFile(Imported(Some(<<Grant("CLIN", 2, 20, "Closed")>>),
                               Some(<<Paper("P2")>>), Some(<<>>)))

ApplyStore == ops < MaxStoreOps /\ \E suffix \in Suffixes : ApplyChanges(suffix)

AddStore ==
    ops < MaxStoreOps /\ \E ids \in IdsNow(2) :
        AddGrants(<<Grant("CLIN", 2, 20, "Closed"), Grant("DISC", 1, 10, "Active")>>, ids)

NextStore ==
    \/ LoadStored
    \/ LoadFetched
    \/ LoadFailed
    \/ Tick
    \/ Exceed
    \/ ImportStore
    \/ Resolve
    \/ UploadStore
    \/ ApplyStore
    \/ AddStore

SpecStore == Init /\ [][NextStore]_vars

(***************************************************************************)
(* SpecTemplate: the data-management section with its template download.   *)
(***************************************************************************)
\* A workbook of active grants, a JSON file without any, an unreadable file.
ImportTemplate ==
    ops < MaxTemplateOps /\
        \E file \in {Xlsx(<<>>, <<>>, <<Ordered(ActiveGrant("G3", 200, "Active"), 0)>>),
                     Json(Imported(Some(<<Grant("CLIN", 2, 20, "Closed")>>), Undef, Undef)),
                     Unreadable("json")} : ImportCall(file)

UploadTemplate ==
    \E upload \in {Imported(Some(<<Grant("CLIN", 2, 20, "Closed")>>), Some(<<Paper("P2")>>),
                            Some(<<>>)),
                   Imported(Some(<<>>), Some(<<>>),
                            Some(<<ActiveGrant("G2", 100, "Closed"),
                                   ActiveGrant("G3", 200, "Active")>>))} :
        ProcessEditorFile(upload)

\* The preview: a row of the active grants is deleted, or its status cell
\* is set to Closed.
DeleteRow == \E rowIndex \in 1..MaxBatch : HandleDeleteRow("activeGrants", rowIndex)

EditCell ==
    \E rowIndex \in 1..MaxBatch :
        /\ editedData # Null
        /\ rowIndex <= Len(editedData.activeGrants[1])
        /\ editedData.activeGrants[1][rowIndex].awardStatus # "Closed"
        /\ HandleCellEdit("activeGrants", rowIndex,
                          [editedData.activeGrants[1][rowIndex] EXCEPT
                              !.awardStatus = "Closed"])

ApplyTemplate == ops < MaxTemplateOps /\ ApplyChanges("k3x9q2m1z")

NextTemplate ==
    \/ LoadStored
    \/ LoadFetched
    \/ LoadFailed
    \/ ImportTemplate
    \/ ResolveAny
    \/ UploadTemplate
    \/ DeleteRow
    \/ EditCell
    \/ ApplyTemplate
    \/ HandleDownloadTemplate

SpecTemplate == Init /\ [][NextTemplate]_vars

(***************************************************************************)
(* SpecExport: the files that exportData produced in some session are      *)
(* imported through the hook, with or without a data set.                  *)
(***************************************************************************)
\* The exports of the documents that sessions start from, and the export of
\* this session's own data set.
ImportExported ==
    ops < MaxExportOps /\ ~loading /\
        \E d \in Documents \cup (IF data = Null THEN {} ELSE {data}) :
            ImportSuspend(ExportedFile(d))

NextExport ==
    \/ LoadStored
    \/ LoadFetched
    \/ LoadFailed
    \/ ImportExported
    \/ ResolveAny

SpecExport == Init /\ [][NextExport]_vars

(***************************************************************************)
(* SpecSheets: workbooks are imported, sheet by sheet.                     *)
(***************************************************************************)
\* handleImportFileUpload: the drop zone takes no file while one is being
\* imported (isUploading).
ImportWorkbook ==
    ops < MaxSheetOps /\ inflight = <<>> /\
        \E file \in Workbooks : ImportCall(file)

NextSheets ==
    \/ LoadStored
    \/ LoadFetched
    \/ LoadFailed
    \/ ImportWorkbook
    \/ ResolveAny

SpecSheets == Init /\ [][NextSheets]_vars

(***************************************************************************)
(* SpecStart: the sessions of one browser, from the first visit on.  The   *)
(* storage holds nothing then, or an item that is no JSON text.            *)
(***************************************************************************)
InitStart ==
    /\ mem = NoObjects
    /\ activeGrantsRef = 0
    /\ deployment = Unprotected
    /\ client = NewClient
    /\ data = Null
    /\ loading = TRUE
    /\ error = Undef
    /\ changes = <<>>
    /\ stored \in {Null, Corrupt}
    /\ storedChanges = Undef
    /\ inflight = <<>>
    /\ editedData = Null
    /\ now = 2
    /\ quotaExceeded = FALSE
    /\ last = Done("none", TRUE, Null, Imported(Undef, Undef, Undef), <<>>)
    /\ ops = 0

\* The page is loaded again: the hook starts from its initial state and the
\* effect runs loadData; localStorage is what the last session left.
Restart ==
    /\ ops < MaxStarts
    /\ ops' = ops + 1
    /\ data' = Null
    /\ loading' = TRUE
    /\ error' = Undef
    /\ changes' = <<>>
    /\ inflight' = <<>>
    /\ editedData' = Null
    /\ UNCHANGED <<deployment, client>>
    /\ activeGrantsRef' = 0
    /\ last' = Done("none", TRUE, Null, Imported(Undef, Undef, Undef), <<>>)
    /\ UNCHANGED <<stored, storedChanges, now, quotaExceeded, mem>>

ApplyStart == ops < MaxStarts /\ ApplyChanges("i")

\* The fetch settles: it yields a document, or it fails.
FetchSettles == LoadFetched \/ LoadFailed

NextStart ==
    \/ LoadStored
    \/ LoadCorrupt
    \/ LoadFetched
    \/ LoadFailed
    \/ Restart
    \/ Exceed
    \/ UploadStore
    \/ ApplyStart

\* loadData runs to its end once started: reading the storage does not
\* block, and a fetch settles (the browser ends a request that gets no
\* answer).
SpecStart ==
    /\ InitStart
    /\ [][NextStart]_vars
    /\ WF_vars(LoadStored)
    /\ WF_vars(LoadCorrupt)
    /\ WF_vars(FetchSettles)

(***************************************************************************)
(* SpecEditor: workbooks are uploaded to the editor and applied.           *)
(***************************************************************************)
UploadWorkbook ==
    \E sheets \in EditorWorkbooks : ProcessEditorFile(processEditorFile(sheets))

ApplyEditor == ops < MaxEditorOps /\ ApplyChanges("k3x9q2m1z")

NextEditor ==
    \/ LoadStored
    \/ LoadFetched
    \/ LoadFailed
    \/ UploadWorkbook
    \/ ApplyEditor

SpecEditor == Init /\ [][NextEditor]_vars

(***************************************************************************)
(* SpecHeap: the merge of importData on objects.  mem.heap is a sequence   *)
(* of objects and a reference is an index into it: an ActiveGrant object   *)
(* is its record, an array object is [items |-> ...] (references for       *)
(* activeGrants, the rows themselves for grants and papers, which the      *)
(* merge never writes), a document object holds references to its arrays.  *)
(***************************************************************************)
OrEmpty(field) == IF field = Undef THEN <<>> ELSE field[1]

\* The objects that parsing a document or a file creates, put after those
\* of h; the document object is the last one.
Parsed(h, p) ==
    LET n == Len(h)
        k == Len(OrEmpty(p.activeGrants))
    IN  h \o OrEmpty(p.activeGrants)
          \o <<[items |-> OrEmpty(p.grants)],
               [items |-> OrEmpty(p.papers)],
               [items |-> [i \in 1..k |-> n + i]],
               [grants |-> IF p.grants = Undef THEN Undef ELSE Some(n + k + 1),
                papers |-> IF p.papers = Undef THEN Undef ELSE Some(n + k + 2),
                activeGrants |-> IF p.activeGrants = Undef THEN Undef ELSE Some(n + k + 3),
                summary |-> p.summary]>>

\* The document that a reference describes.
Deref(h, ref) ==
    LET items(field) == IF field = Undef THEN Undef ELSE Some(h[field[1]].items)
        ags == items(h[ref].activeGrants)
    IN  Partial(items(h[ref].grants), items(h[ref].papers),
                IF ags = Undef THEN Undef
                ELSE Some([i \in 1..Len(ags[1]) |-> h[ags[1][i]]]),
                h[ref].summary)

\* The references of a data set: the document, its arrays, its records.
Reachable(h, ref) ==
    {ref}
    \cup {h[ref][f][1] : f \in {f \in {"grants", "papers", "activeGrants"} : h[ref][f] # Undef}}
    \cup (IF h[ref].activeGrants = Undef THEN {}
          ELSE {h[h[ref].activeGrants[1]].items[i] :
                    i \in 1..Len(h[h[ref].activeGrants[1]].items)})

\* existingMap, as the references it holds in insertion order.
MapGetRef(h, m, k) ==
    IF \E i \in 1..Len(m) : h[m[i]].grantNumber = k
    THEN Some(m[CHOOSE i \in 1..Len(m) : h[m[i]].grantNumber = k])
    ELSE Undef

MapSetRef(h, m, ag) ==
    IF \E i \in 1..Len(m) : h[m[i]].grantNumber = h[ag].grantNumber
    THEN [i \in 1..Len(m) |-> IF h[m[i]].grantNumber = h[ag].grantNumber THEN ag ELSE m[i]]
    ELSE Append(m, ag)

RECURSIVE MapFromRefs(_, _, _)
MapFromRefs(h, m, refs) ==
    IF refs = <<>> THEN m ELSE MapFromRefs(h, MapSetRef(h, m, Head(refs)), Tail(refs))

\* Mutant: the previous value is written onto the existing record.
WriteValueChangeOnExisting(h, existing, ag) ==
    IF h[existing].awardValue # h[ag].awardValue
    THEN [h EXCEPT ![existing].previousAwardValue = Some(h[existing].awardValue)]
    ELSE h

\* ag.previousAwardValue = existing.awardValue
WriteValueChange(h, existing, ag) ==
    IF h[existing].awardValue # h[ag].awardValue
    THEN [h EXCEPT ![ag].previousAwardValue = Some(h[existing].awardValue)]
    ELSE h

\* ag.previousAwardStatus = existing.awardStatus
WriteStatusChange(h, existing, ag) ==
    IF h[existing].awardStatus # h[ag].awardStatus
    THEN [h EXCEPT ![ag].previousAwardStatus = Some(h[existing].awardStatus)]
    ELSE h

\* One turn of imported.activeGrants.forEach, on the heap and the map.
MergeOneRef(st, ag) ==
    LET existing == MapGetRef(st.heap, st.map, st.heap[ag].grantNumber)
    IN  [heap |-> IF existing # Undef
                  THEN WriteStatusChange(WriteValueChange(st.heap, existing[1], ag),
                                         existing[1], ag)
                  ELSE st.heap,
         map |-> MapSetRef(st.heap, st.map, ag)]

RECURSIVE MergeEachRef(_, _)
MergeEachRef(st, refs) ==
    IF refs = <<>> THEN st ELSE MergeEachRef(MergeOneRef(st, Head(refs)), Tail(refs))

\* [...data.grants, ...imported.grants]: a new array, or the old one when
\* nothing is imported.
SpreadBoth(h, existing, incoming) ==
    IF incoming # Undef
    THEN [items |-> h[existing[1]].items \o h[incoming[1]].items]
    ELSE h[existing[1]]

\* The merge from `if (data)` to mergedData: the heap it leaves, with the
\* new arrays and the new document object at its end.
MergeOnHeap(h, d, imported) ==
    LET incoming == h[imported].activeGrants
        merges == incoming # Undef /\ Len(h[incoming[1]].items) > 0
        st == IF merges
              THEN MergeEachRef([heap |-> h,
                                 map |-> MapFromRefs(h, <<>>, h[h[d].activeGrants[1]].items)],
                                h[incoming[1]].items)
              ELSE [heap |-> h, map |-> <<>>]
        n == Len(h)
    IN  st.heap
          \o <<SpreadBoth(h, h[d].grants, h[imported].grants),
               SpreadBoth(h, h[d].papers, h[imported].papers),
               [items |-> st.map],
               [grants |-> IF h[imported].grants # Undef THEN Some(n + 1) ELSE h[d].grants,
                papers |-> IF h[imported].papers # Undef THEN Some(n + 2) ELSE h[d].papers,
                activeGrants |-> IF merges THEN Some(n + 3) ELSE h[d].activeGrants,
                summary |-> Some(MergedSummary(h[d].summary[1], Deref(h, imported)))]>>

\* A data set and a parsed file are on the heap.
InitHeap ==
    /\ \E doc \in Documents :
           \E file \in {f \in ImportFiles : ~ImportFails(doc, f)} :
               LET h == Parsed(<<>>, doc)
               IN  mem = [heap |-> Parsed(h, file.imported), data |-> Len(h),
                          imported |-> Len(Parsed(h, file.imported)),
                          held |-> 0, before |-> <<>>]
    /\ activeGrantsRef = 0
    /\ deployment = Unprotected
    /\ client = NewClient
    /\ data = Null
    /\ loading = TRUE
    /\ error = Undef
    /\ changes = <<>>
    /\ stored = Null
    /\ storedChanges = Undef
    /\ inflight = <<>>
    /\ editedData = Null
    /\ now = 2
    /\ quotaExceeded = FALSE
    /\ last = Done("none", TRUE, Null, Imported(Undef, Undef, Undef), <<>>)
    /\ ops = 0

\* importData merges; the caller keeps its reference to the old data set.
MergeObjects ==
    /\ mem.imported # 0
    /\ mem' = [heap |-> MergeOnHeap(mem.heap, mem.data, mem.imported),
               data |-> Len(MergeOnHeap(mem.heap, mem.data, mem.imported)),
               imported |-> 0,
               held |-> mem.data,
               before |-> mem.heap]
    /\ UNCHANGED <<data, loading, error, changes, stored, storedChanges, inflight,
                   editedData, now, quotaExceeded, activeGrantsRef, deployment, client, last, ops>>

SpecHeap == InitHeap /\ [][MergeObjects]_vars

(***************************************************************************)
(* SpecAccess: a browser and other clients send requests through the       *)
(* access middleware.                                                      *)
(***************************************************************************)
InitAccess ==
    /\ data = Null
    /\ loading = TRUE
    /\ error = Undef
    /\ changes = <<>>
    /\ stored = Null
    /\ storedChanges = Null
    /\ inflight = <<>>
    /\ editedData = Null
    /\ now = 0
    /\ quotaExceeded = FALSE
    /\ mem = NoObjects
    /\ activeGrantsRef = 0
    /\ deployment \in {Deployment(source, env) : source \in Middlewares, env \in Envs}
    /\ client = NewClient
    /\ last = Done("none", TRUE, Null, Null, <<>>)
    /\ ops = 0

\* One request through the middleware and what the browser keeps of the
\* response.
Exchange(request, own) ==
    LET response == onRequest(deployment, request)
    IN  /\ client' = [jar |-> JarAfter(client.jar, response),
                      submittedValid |->
                          \/ client.submittedValid
                          \/ /\ request.method = "POST"
                             /\ CredentialsMatch(deployment, request),
                      sentOwnCookie |-> client.sentOwnCookie \/ own]
        /\ last' = Done("request", response.forwarded, client, request, response)
        /\ UNCHANGED <<data, loading, error, changes, stored, storedChanges, inflight,
                       editedData, now, quotaExceeded, mem, activeGrantsRef,
                       deployment, ops>>

\* The browser sends the cookies it holds.
Get ==
    \E pathname \in Pathnames :
        Exchange(Request("GET", pathname, client.jar, Undef, Undef), FALSE)

\* The login form, or any form, is posted.
Post ==
    \E pathname \in Pathnames, username \in Usernames, password \in Passwords :
        Exchange(Request("POST", pathname, client.jar, username, password), FALSE)

\* A client sends a Cookie header of its own making.
SendOwnCookie ==
    \E method \in Methods, pathname \in Pathnames, cookie \in OwnCookies,
       username \in Usernames, password \in Passwords :
        /\ method = "GET" => username = Undef /\ password = Undef
        /\ Exchange(Request(method, pathname, cookie, username, password), TRUE)

\* Max-Age passes: the browser drops the cookie.
Expire ==
    /\ client.jar # Undef
    /\ client' = [client EXCEPT !.jar = Undef]
    /\ UNCHANGED <<data, loading, error, changes, stored, storedChanges, inflight,
                   editedData, now, quotaExceeded, mem, activeGrantsRef,
                   deployment, last, ops>>

NextAccess ==
    \/ Get
    \/ Post
    \/ SendOwnCookie
    \/ Expire

SpecAccess == InitAccess /\ [][NextAccess]_vars

(***************************************************************************)
(* Properties.  `last` names the operation that produced the current       *)
(* data: last.pre is the document the operation read (for importData the   *)
(* `data` of its closure), last.input what it was given.                   *)
(***************************************************************************)
\* importData went through and merged into an existing data set.
Merged == last.op = "import" /\ last.ok /\ last.pre # Null

\* ... and the import carried a non-empty activeGrants list.
MergedActive ==
    /\ Merged
    /\ last.input.activeGrants # Undef
    /\ Len(last.input.activeGrants[1]) > 0

Before == last.pre.activeGrants[1]
Incoming == last.input.activeGrants[1]
After == data.activeGrants[1]

Occurrences(ags, k) == {i \in 1..Len(ags) : ags[i].grantNumber = k}

\* The rows of the batch that survive the merge: the last one of each
\* grant number.
Surviving == {j \in 1..Len(Incoming) :
                 \A j2 \in Occurrences(Incoming, Incoming[j].grantNumber) : j2 <= j}

\* The record of the merged list with the grant number of row j.
MergedRecord(j) ==
    After[CHOOSE i \in 1..Len(After) : After[i].grantNumber = Incoming[j].grantNumber]

\* The record `existing` that importData finds under the grant number of
\* row j when it merges that row: the one the lookup then holds, which is
\* the record of the data set or, where the batch repeats the grant number,
\* the preceding row of the batch.  Undef when there is none.
ExistingFor(j) ==
    LET k == Incoming[j].grantNumber
        earlier == {j2 \in Occurrences(Incoming, k) : j2 < j}
    IN  IF earlier # {}
        THEN Some(Incoming[CHOOSE j2 \in earlier : \A j3 \in earlier : j3 <= j2])
        ELSE IF Occurrences(Before, k) # {}
             THEN Some(Before[CHOOSE i \in Occurrences(Before, k) : TRUE])
             ELSE Undef

\* Equal but for the two previous-value fields, which the merge may fill in.
SameButPrevious(a, b) ==
    [a EXCEPT !.previousAwardValue = Undef, !.previousAwardStatus = Undef]
        = [b EXCEPT !.previousAwardValue = Undef, !.previousAwardStatus = Undef]

\* C1: after a successful import with a non-empty activeGrants list into an
\* existing data set, every imported grant number has exactly one record in
\* the merged list and that record is the imported one (the last row of the
\* batch with that number, with at most its previous-value fields filled
\* in), and every existing record whose grant number is not imported is
\* still there, once and unchanged.
C1_IdentityMerge ==
    MergedActive =>
        /\ \A j \in 1..Len(Incoming) :
              Cardinality(Occurrences(After, Incoming[j].grantNumber)) = 1
        /\ \A j \in Surviving : SameButPrevious(MergedRecord(j), Incoming[j])
        /\ \A i \in 1..Len(Before) :
              Before[i].grantNumber \notin GrantNumbers(Incoming) =>
                  Cardinality({n \in 1..Len(After) : After[n] = Before[i]}) = 1

\* An import that replaces one record, adds one and leaves one alone.
C1_Witness ==
    /\ MergedActive
    /\ \E j \in 1..Len(Incoming) : Incoming[j].grantNumber \in GrantNumbers(Before)
    /\ \E j \in 1..Len(Incoming) : Incoming[j].grantNumber \notin GrantNumbers(Before)
    /\ \E i \in 1..Len(Before) : Before[i].grantNumber \notin GrantNumbers(Incoming)

C5_PureAppend ==
    Merged =>
        /\ data.grants[1] = last.pre.grants[1] \o OrEmpty(last.input.grants)
        /\ data.papers[1] = last.pre.papers[1] \o OrEmpty(last.input.papers)

\* Two grants imported, one of them equal to a grant that is already there.
C5_Witness ==
    /\ Merged
    /\ last.input.grants # Undef
    /\ Len(last.input.grants[1]) = 2
    /\ last.input.grants[1][1] # last.input.grants[1][2]
    /\ \E i \in 1..Len(last.pre.grants[1]) : last.pre.grants[1][i] = last.input.grants[1][2]

\* A mutation of the data went through.
Mutated == last.op \in {"import", "apply", "addGrants", "addPapers"} /\ last.ok

\* C6 as claimed: after every mutation the four totals of the summary are
\* those of the arrays the mutation leaves.
C6_SummaryRecomputed ==
    Mutated =>
        /\ data.summary[1].totalGrants = Len(data.grants[1])
        /\ data.summary[1].totalPapers = Len(data.papers[1])
        /\ data.summary[1].totalProjects = SumTotalAwards(data.grants[1])
        /\ data.summary[1].totalAmount = SumAwardValue(data.grants[1])

\* C7 as claimed: after every successful import, summary.activeProjects is
\* the sum of totalAwards over the merged grants that are not "Closed".
C7_ActiveProjects ==
    last.op = "import" /\ last.ok =>
        data.summary[1].activeProjects = SumTotalAwards(NotClosed(data.grants[1]))

\* C8: an import of Grant records into an existing data set raises
\* summary.totalProjects by the sum of totalAwards over the imported grants.
C8_TotalProjectsAdditive ==
    Merged /\ last.input.grants # Undef =>
        data.summary[1].totalProjects - last.pre.summary[1].totalProjects
            = SumTotalAwards(last.input.grants[1])

\* Two grants imported into a data set whose summary had drifted.
C8_Witness ==
    /\ Merged
    /\ last.input.grants # Undef
    /\ Len(last.input.grants[1]) = 2
    /\ last.pre.summary[1].totalProjects # SumTotalAwards(last.pre.grants[1])

\* C9: a successful bulk import and an editor apply each add exactly one
\* entry to the change log, in front of the entries that were there; a
\* failed import adds none.
C9_OneEntryPerMutation ==
    /\ last.op \in {"import", "apply"} /\ last.ok =>
          /\ Len(changes) = Len(last.log) + 1
          /\ Tail(changes) = last.log
          /\ changes[1].entityId = IF last.op = "import" THEN "bulk-import" ELSE "data-editor"
    /\ last.op = "import" /\ ~last.ok => changes = last.log

\* An editor apply that follows a bulk import.
C9_Witness ==
    /\ last.op = "apply" /\ last.ok
    /\ Len(changes) = 2
    /\ changes[1].entityId = "data-editor"
    /\ changes[2].entityId = "bulk-import"

\* C10 as claimed: the entry a bulk import or an editor apply records
\* carries a snapshot of the grants, activeGrants, papers and summary held
\* immediately before the mutation.
C10_SnapshotOfPreState ==
    last.op \in {"import", "apply"} /\ last.ok /\ last.pre # Null =>
        changes[1].snapshot =
            Some([grants |-> last.pre.grants, activeGrants |-> last.pre.activeGrants,
                  papers |-> last.pre.papers, summary |-> last.pre.summary])

\* The entry of the log that a lookup of the id of the last rollback finds:
\* the first one with that id, Undef when there is none.
Requested == last.input.changeId

Found ==
    LET hits == {i \in 1..Len(last.log) : last.log[i].id = Some(Requested)}
    IN  IF hits = {} THEN Undef
        ELSE Some(last.log[CHOOSE i \in hits : \A j \in hits : i <= j])

\* C11: after rollback(changeId) on an entry that carries a snapshot, the
\* current grants, activeGrants, papers and summary, in memory and
\* persisted, equal those of the snapshot, whatever was imported or applied
\* after the entry was recorded; a second call leaves that state as it is.
C11_RollbackRestores ==
    last.op = "rollback" /\ Found # Undef /\ Found[1].snapshot # Undef =>
        /\ last.ok
        /\ data.grants = Found[1].snapshot[1].grants
        /\ data.activeGrants = Found[1].snapshot[1].activeGrants
        /\ data.papers = Found[1].snapshot[1].papers
        /\ data.summary = Found[1].snapshot[1].summary
        /\ stored = data
        /\ last.input.previous = Some([changeId |-> Requested, ok |-> TRUE]) =>
               data = last.pre

\* The second of two rollbacks to an entry of the earlier session, after a
\* mutation of this session.
C11_Witness ==
    /\ last.op = "rollback" /\ last.ok
    /\ last.input.previous = Some([changeId |-> Requested, ok |-> TRUE])
    /\ Len(changes) > 3
    /\ Found[1].snapshot[1].grants # <<>>

\* C12: a rollback whose id no entry has, or whose entry carries no
\* snapshot, reports failure and changes neither the data, nor the persisted
\* document, nor the change log.
C12_FailedRollbackChangesNothing ==
    [][(/\ last' # last
        /\ last'.op = "rollback"
        /\ \/ \A i \in 1..Len(changes) : changes[i].id # Some(last'.input.changeId)
           \/ \E i \in 1..Len(changes) :
                 /\ changes[i].id = Some(last'.input.changeId)
                 /\ \A j \in 1..(i - 1) : changes[j].id # Some(last'.input.changeId)
                 /\ changes[i].snapshot = Undef)
       => /\ ~last'.ok
          /\ UNCHANGED <<data, stored, changes, storedChanges>>]_vars

\* A rollback to an entry without snapshot, right after one to an id that
\* no entry has.
C12_Witness ==
    /\ last.op = "rollback" /\ ~last.ok
    /\ Found # Undef /\ Found[1].snapshot = Undef
    /\ last.input.previous = Some([changeId |-> ChangeId(0, "absent"), ok |-> FALSE])
    /\ data = last.pre /\ changes = last.log

\* C13: a successful rollback leaves the change log as it was, in memory
\* and persisted: the entry rolled back to is still there and no entry is
\* added.
C13_RollbackNotLogged ==
    last.op = "rollback" /\ last.ok =>
        /\ changes = last.log
        /\ \E i \in 1..Len(changes) : changes[i].id = Some(Requested)
        /\ storedChanges = Some(changes)

\* A rollback that undoes an import of this session.
C13_Witness ==
    /\ last.op = "rollback" /\ last.ok
    /\ data # last.pre
    /\ Len(changes) > 3
    /\ changes[1].entityId = "bulk-import"

\* The entries that the last operation put on the log, and how many record
\* calls it made.
Recorded == Len(changes) - Len(last.log)

RecordCalls ==
    IF last.op = "addGrants" THEN Len(last.input.grants[1])
    ELSE IF last.op = "addPapers" THEN Len(last.input.papers[1])
    ELSE 1

\* C14: every record call puts its entry at the head of the log: after an
\* operation that made n calls the log is n new entries, the latest first,
\* followed by the earlier log unchanged, and the stored log is that same
\* list, none of it dropped.
C14_MostRecentFirst ==
    Mutated =>
        /\ Recorded = RecordCalls
        /\ SubSeq(changes, Recorded + 1, Len(changes)) = last.log
        /\ storedChanges = Some(changes)
        /\ last.op = "addGrants" =>
              \A k \in 1..Recorded :
                  changes[k].changes.new = Some(last.input.grants[1][Recorded + 1 - k])
        /\ last.op = "addPapers" =>
              \A k \in 1..Recorded :
                  changes[k].changes.new = Some(last.input.papers[1][Recorded + 1 - k])

\* Two grants added, one record call each, on a log that had two entries.
C14_Witness ==
    /\ last.op = "addGrants" /\ last.ok
    /\ Len(last.log) = 2
    /\ Recorded = 2
    /\ changes[1].changes.new # changes[2].changes.new

\* C15 as claimed: the entries of the change log have pairwise distinct
\* ids, also when two of them are recorded in the same millisecond.
C15_DistinctIds ==
    \A i, j \in 1..Len(changes) : changes[i].id = changes[j].id => i = j

\* C16 as claimed: while an import is suspended in file parsing no import,
\* editor apply or rollback commits, so the data every suspended import
\* will merge into is the current data.
C16_NoCommitWhileSuspended ==
    last.op \in {"import", "apply", "rollback"} /\ last.ok =>
        \A i \in 1..Len(inflight) : inflight[i].data = data

\* C17: an importData whose file cannot be parsed, or whose parsed content
\* has neither grants nor papers, returns false and leaves the in-memory
\* data, the persisted document and the change log as they were.
C17_FailedImportChangesNothing ==
    [][\A i \in 1..Len(inflight) :
          (/\ inflight' = RemoveAt(inflight, i)
           /\ \/ ~inflight[i].file.parses
              \/ /\ inflight[i].file.imported.grants = Undef
                 /\ inflight[i].file.imported.papers = Undef)
          => /\ last'.op = "import" /\ ~last'.ok
             /\ UNCHANGED <<data, stored, changes, storedChanges>>]_vars

\* A file with activeGrants only is refused after an earlier mutation.
C17_Witness ==
    /\ last.op = "import" /\ ~last.ok
    /\ last.input.grants = Undef /\ last.input.papers = Undef
    /\ last.input.activeGrants # Undef
    /\ data # Null /\ stored = data
    /\ Len(changes) > 0 /\ changes = last.log

\* C18 as claimed: with no data set yet, importData refuses an imported
\* partial that is not a complete document: it reports failure and the
\* store stays without data.
C18_FirstImportRejected ==
    (/\ last.op = "import"
     /\ last.pre = Null
     /\ \/ last.input.grants = Undef
        \/ last.input.papers = Undef
        \/ last.input.activeGrants = Undef
        \/ last.input.summary = Undef)
    => ~last.ok /\ data = Null /\ stored = Null

\* C19 as claimed: when the write of the document fails inside saveData,
\* the import or editor apply that called it keeps the new data in memory
\* and still completes: it records its change entry and reports success.
C19_WriteFailureCaught ==
    [][(/\ quotaExceeded
        /\ last' # last
        /\ last'.op \in {"import", "apply"}
        /\ data' # data)
       => /\ last'.ok
          /\ Len(changes') = Len(changes) + 1
          /\ changes'[1].entityId \in {"bulk-import", "data-editor"}]_vars

\* The merge has run on the heap.
MergedOnHeap == mem.held # 0

\* C20: the merge of importData writes no object of the data set it
\* merges into: the old document object, its three arrays and every record
\* in them are after the merge what they were before, so the old reference
\* still describes the old data set.
C20_MergeLeavesInput ==
    MergedOnHeap =>
        /\ \A ref \in Reachable(mem.before, mem.held) : mem.heap[ref] = mem.before[ref]
        /\ Deref(mem.heap, mem.held) = Deref(mem.before, mem.held)

\* A merge that wrote a previous value, and so changed an object that was
\* there before it: one of the imported file.
C20_Witness ==
    /\ MergedOnHeap
    /\ \E ref \in 1..Len(mem.before) :
          /\ mem.heap[ref] # mem.before[ref]
          /\ mem.heap[ref].previousAwardValue # Undef
    /\ Deref(mem.heap, mem.data).activeGrants # Deref(mem.before, mem.held).activeGrants
\* C21: no action of the presentation layer changes the data of the store
\* except by handing a new value to importData or updateData: a step that
\* downloads the data template, previews an upload, edits a cell or deletes
\* a preview row leaves `data` as it is, the order of activeGrants included.
C21_PresentationLeavesData ==
    [][(HandleDownloadTemplate \/ UploadTemplate \/ DeleteRow \/ EditCell)
           => data' = data]_vars
\* C22: when the JSON text that exportData yields for a data set is imported
\* into a store that has no data set, the store's grants, papers and
\* activeGrants are those of the exported data set.
C22_ExportImportRoundTrip ==
    \A d \in Documents :
        (/\ last.op = "import" /\ last.ok /\ last.pre = Null
         /\ last.input = ExportedFile(d).imported)
            => /\ data.grants = d.grants
               /\ data.papers = d.papers
               /\ data.activeGrants = d.activeGrants

\* The export of a data set whose active grants carry sort orders has been
\* imported into an empty store.
C22_Witness ==
    /\ last.op = "import" /\ last.ok /\ last.pre = Null
    /\ \E d \in Documents :
          /\ last.input = ExportedFile(d).imported
          /\ \E i \in 1..Len(d.activeGrants[1]) : d.activeGrants[1][i].sortOrder # Undef
          /\ data.activeGrants = d.activeGrants
\* C23: in every state of the store no two records of activeGrants share a
\* grantNumber, whatever imports and editor applies have run (the documents
\* that a session starts from have unique grant numbers).
C23_UniqueGrantNumbers ==
    (data # Null /\ data.activeGrants # Undef) => UniqueGrantNumbers(data.activeGrants[1])
\* The type that the name of a sheet stands for: ActiveGrant for a name
\* with "active" or one of the two Chinese words for running projects, Grant
\* for a name with "grant" but not "active" or with the Chinese word for
\* funding, Paper for a name with "paper", "publication" or one of the two
\* Chinese words for literature, none otherwise.
NamedType(sheetName) ==
    LET lowerName == ToLowerCase(sheetName)
    IN  IF Includes(lowerName, <<"a", "c", "t", "i", "v", "e">>)
           \/ Includes(lowerName, <<"U+8FDB", "U+884C", "U+4E2D">>)
           \/ Includes(lowerName, <<"U+9879", "U+76EE">>)
        THEN "activeGrants"
        ELSE IF Includes(lowerName, <<"g", "r", "a", "n", "t">>)
                \/ Includes(lowerName, <<"U+8D44", "U+52A9">>)
        THEN "grants"
        ELSE IF Includes(lowerName, <<"p", "a", "p", "e", "r">>)
                \/ Includes(lowerName, <<"U+6587", "U+732E">>)
                \/ Includes(lowerName, <<"U+8BBA", "U+6587">>)
                \/ Includes(lowerName, <<"p", "u", "b", "l", "i", "c", "a", "t", "i", "o", "n">>)
        THEN "papers"
        ELSE "none"

\* The rows of the sheets whose name stands for `type`, in sheet order.
RECURSIVE RowsNamed(_, _)
RowsNamed(sheets, type) ==
    IF sheets = <<>> THEN <<>>
    ELSE (IF NamedType(Head(sheets).name) = type THEN Head(sheets).rows ELSE <<>>)
         \o RowsNamed(Tail(sheets), type)

\* C24: what importData gets from a workbook holds, for each type, the
\* records of exactly the sheets whose lower-cased name stands for that type
\* (a sheet named "ActiveGrants" yields ActiveGrant records, not Grant
\* records), and a sheet whose name stands for no type yields none.
C24_SheetsByLowerCasedName ==
    \A i \in 1..Len(inflight) :
        "sheets" \in DOMAIN inflight[i].file =>
            LET sheets == inflight[i].file.sheets
                imported == inflight[i].file.imported
            IN  /\ imported.activeGrants[1]
                     = RowsAs(RowAsActiveGrant, RowsNamed(sheets, "activeGrants"))
                /\ imported.grants[1] = RowsAs(RowAsGrant, RowsNamed(sheets, "grants"))
                /\ imported.papers[1] = RowsAs(RowAsPaper, RowsNamed(sheets, "papers"))
\* C25: loadData fetches the remote document only when no document is
\* persisted; a cold start that succeeds leaves the fetched document
\* persisted and no step removes a persisted item, so no later start
\* fetches; and whichever way loadData goes (stored document, fetched
\* document, failed fetch, stored item that cannot be parsed), loading
\* becomes false.
C25_StartReadsStoredFirst ==
    /\ [][/\ FetchSettles => stored = Null
          /\ (LoadFetched /\ last'.ok) => (stored' = data' /\ stored' # Null)
          /\ stored # Null => stored' # Null]_vars
    /\ (loading ~> ~loading)

\* A later start has read the document that an earlier cold start persisted.
C25_Witness ==
    /\ ops > 0
    /\ ~loading
    /\ last.op = "load" /\ last.ok
    /\ stored \in Documents
    /\ data = stored
\* C26: when the batch of an import repeats a grant number, the record that
\* survives the merge has its previousAwardValue, when set, equal to the
\* awardValue that grant number had in the data set before the import.
\* (Stated for workbook batches, whose rows carry no previous value of
\* their own.)
C26_PreviousFromPersisted ==
    (MergedActive /\ IsSheetBatch(Incoming)) =>
        \A j \in Surviving :
            (/\ Cardinality(Occurrences(Incoming, Incoming[j].grantNumber)) > 1
             /\ MergedRecord(j).previousAwardValue # Undef)
                => \E i \in Occurrences(Before, Incoming[j].grantNumber) :
                       MergedRecord(j).previousAwardValue = Some(Before[i].awardValue)
\* The list persisted under 'cirm-changes'; nothing persisted is an empty list.
PersistedLog == IF storedChanges = Undef THEN <<>> ELSE storedChanges[1]

\* C27: when no write to the storage has failed, every step that completes
\* an operation of the store (initial load, import, editor apply, addGrants,
\* addPapers, each with the changes it records) ends in a state where the
\* document persisted under 'cirm-data' is the in-memory data and the list
\* persisted under 'cirm-changes' is the in-memory change log.
C27_PersistedEqualsMemory ==
    [][(/\ last' # last
        /\ last'.op \in {"load", "import", "apply", "addGrants", "addPapers"}
        /\ ~quotaExceeded)
           => (stored' = data' /\ PersistedLog' = changes')]_vars
\* C28: every change handed to recordChange is in the change log once and
\* stays there: each step leaves the earlier log as the tail of the new one,
\* an operation that goes through adds as many entries as it made record
\* calls, and the persisted list follows; this also when an import resumes
\* after an editor apply that ran while the import was suspended.
C28_NoRecordLost ==
    [][/\ Len(changes') >= Len(changes)
       /\ SubSeq(changes', Len(changes') - Len(changes) + 1, Len(changes')) = changes
       /\ changes' # changes => storedChanges' = Some(changes')
       /\ (last' # last /\ last'.ok
           /\ last'.op \in {"import", "apply", "addGrants", "addPapers"})
             => Len(changes') - Len(changes)
                  = (IF last'.op = "addGrants" THEN Len(last'.input.grants[1])
                     ELSE IF last'.op = "addPapers" THEN Len(last'.input.papers[1])
                     ELSE 1)]_vars

\* An import has resumed after an editor apply that ran while it was
\* suspended (the data it merged into is not what the apply left), and the
\* log holds the entry of the import on top of the entry of the apply.
C28_Witness ==
    /\ last.op = "import" /\ last.ok
    /\ Len(changes) = 2
    /\ changes[1].entityId = "bulk-import"
    /\ changes[2].entityId = "data-editor"
    /\ changes[2] = last.log[1]
    /\ last.pre.summary[1].totalGrants # changes[2].changes.new[1].totalGrants
\* No sheet of the workbook is classified as `type` by the editor.
NoSheetOf(sheets, type) ==
    \A i \in 1..Len(sheets) : detectSheetType(sheets[i].name) # type

\* C29: applying the editor's changes from an uploaded workbook that has no
\* Grant sheet leaves the grants and the summary fields derived from them
\* (totalGrants, totalProjects, totalAmount, activeProjects) as they were,
\* and one that has no Paper sheet leaves the papers and totalPapers as they
\* were.
C29_AbsentTypesUntouched ==
    \A sheets \in EditorWorkbooks :
        (last.op = "apply" /\ last.ok /\ last.input = processEditorFile(sheets)) =>
            /\ NoSheetOf(sheets, "grants") =>
                  /\ data.grants = last.pre.grants
                  /\ data.summary[1].totalGrants = last.pre.summary[1].totalGrants
                  /\ data.summary[1].totalProjects = last.pre.summary[1].totalProjects
                  /\ data.summary[1].totalAmount = last.pre.summary[1].totalAmount
                  /\ data.summary[1].activeProjects = last.pre.summary[1].activeProjects
            /\ NoSheetOf(sheets, "papers") =>
                  /\ data.papers = last.pre.papers
                  /\ data.summary[1].totalPapers = last.pre.summary[1].totalPapers
\* C30: a request is forwarded to the application only if its Cookie header
\* carries auth=valid; the middleware issues Set-Cookie auth=valid only in
\* response to a POST whose username and password both equal the configured
\* credentials; and a client that never submitted the valid credentials and
\* only returns the cookies the server set is never forwarded.
C30_ForwardedOnlyWithAuth ==
    last.op = "request" =>
        /\ last.ok => /\ last.input.cookie # Undef
                      /\ Includes(last.input.cookie[1], AuthValid)
        /\ (last.log.setCookie # Undef
            /\ Includes(last.log.setCookie[1].value, AuthValid)) =>
               /\ last.input.method = "POST"
               /\ last.input.username = Some(VALID_USERNAME(deployment))
               /\ last.input.password = Some(VALID_PASSWORD(deployment))
        /\ (~client.submittedValid /\ ~client.sentOwnCookie) =>
               /\ ~last.ok
               /\ client.jar = Undef

\* A client that logged in with the configured credentials of the
\* environment and returned the cookie it was given is forwarded.
C30_Witness ==
    /\ last.op = "request"
    /\ last.ok
    /\ client.submittedValid
    /\ ~client.sentOwnCookie
    /\ deployment.env.USERNAME = Some("root")
====
